---------------------------- MODULE Spec2Model ----------------------------
(***************************************************************************)
(* A model of the job-finder backend's aggregation and scoring pipeline:   *)
(*   - MultiSourceCoordinator (jobs/scrapers/multi_source_coordinator.py)  *)
(*   - JobScorer (backend/jobs/scoring.py)                                 *)
(*   - the save and rescoring loops that write Job and JobScore rows       *)
(* Text is modelled as a sequence of one-character strings so that         *)
(* lower(), strip(), split() and the substring test `in` are computed.     *)
(***************************************************************************)
EXTENDS Integers, Sequences, FiniteSets, TLC

VARIABLES
    \* MultiSourceCoordinator: one call of a scrape_* entry point
    c_pc, c_mode, c_arg, c_prefs, c_i, c_all, c_got, c_invoked, c_failed, c_result,
    \* the --max-jobs option when a command made the call (else 0), and the
    \* names in coordinator.scrapers
    c_max_jobs, c_scrapers,
    \* _deduplicate_jobs applied as a pure function
    d_pc, d_in, d_out1, d_out2,
    \* JobScorer.calculate_total_score applied as a pure function
    s_pc, s_impl, s_prefs, s_job, s_res,
    st_jobs, st_scores, st_prefs, st_next_id, st_runs,
    \* the UserPreferences table and the callers of get_active_preferences
    up_rows, up_pc, up_prefs

coordVars ==
    <<c_pc, c_mode, c_arg, c_prefs, c_i, c_all, c_got, c_invoked, c_failed, c_result, c_max_jobs,
      c_scrapers>>
dedupVars == <<d_pc, d_in, d_out1, d_out2>>
scoreVars == <<s_pc, s_impl, s_prefs, s_job, s_res>>
storeVars == <<st_jobs, st_scores, st_prefs, st_next_id, st_runs>>
prefsVars == <<up_rows, up_pc, up_prefs>>
vars == <<coordVars, dedupVars, scoreVars, storeVars, prefsVars>>

\* ------------------------------------------------------------------ bounds
\* longest list one adapter call returns in the model
MaxReturn == 2
\* most postings collected in all_jobs by one coordinator call in the model
MaxRaw == 2
\* longest input list of the pure deduplication runs
MaxLen == 3
\* most scraped records one save run holds in the model
MaxBatch == 2
\* the concurrent callers of get_active_preferences in the model
MaxCallers == 4

\* ------------------------------------------------------------------ idle components
\* Each specification below runs one component; the others stay as constructed.
CoordIdle ==
    /\ c_pc = "idle" /\ c_mode = "none" /\ c_arg = 0 /\ c_prefs = <<>>
    /\ c_i = 0 /\ c_all = <<>> /\ c_got = <<>> /\ c_invoked = <<>>
    /\ c_failed = {} /\ c_result = <<>> /\ c_max_jobs = 0 /\ c_scrapers = {}

DedupIdle == d_pc = "idle" /\ d_in = <<>> /\ d_out1 = <<>> /\ d_out2 = <<>>

ScoreIdle == s_pc = "idle" /\ s_impl = "none" /\ s_prefs = <<>> /\ s_job = <<>> /\ s_res = <<>>

StoreIdle ==
    /\ st_jobs = {} /\ st_scores = <<>> /\ st_prefs = 0 /\ st_next_id = 0
    /\ st_runs = <<>>

PrefsIdle == up_rows = {} /\ up_pc = <<>> /\ up_prefs = <<>>

\* ------------------------------------------------------------------ text
Min(a, b) == IF a < b THEN a ELSE b
Max(a, b) == IF a > b THEN a ELSE b

SeqUpTo(S, n) == UNION {[1..k -> S] : k \in 0..n}

UpperChars == <<"A", "B", "C", "D", "E", "F", "G", "H", "I", "J", "K", "L", "M",
                "N", "O", "P", "Q", "R", "S", "T", "U", "V", "W", "X", "Y", "Z">>
LowerChars == <<"a", "b", "c", "d", "e", "f", "g", "h", "i", "j", "k", "l", "m",
                "n", "o", "p", "q", "r", "s", "t", "u", "v", "w", "x", "y", "z">>

\* str.lower() on one character
LowerChar(c) ==
    IF \E i \in 1..26 : UpperChars[i] = c
    THEN LowerChars[CHOOSE i \in 1..26 : UpperChars[i] = c]
    ELSE c

\* str.lower()
Lower(s) == [i \in 1..Len(s) |-> LowerChar(s[i])]

IsSpace(c) == c \in {" ", "\t", "\n"}

\* str.strip(): leading and trailing whitespace removed
Strip(s) ==
    LET idx == {i \in 1..Len(s) : ~IsSpace(s[i])}
    IN  IF idx = {} THEN <<>>
        ELSE LET lo == CHOOSE i \in idx : \A j \in idx : i <= j
                 hi == CHOOSE i \in idx : \A j \in idx : i >= j
             IN  SubSeq(s, lo, hi)

\* str.split(): the maximal runs of non-whitespace characters, in order
RECURSIVE SplitFrom(_, _)
SplitFrom(s, i) ==
    IF i > Len(s) THEN <<>>
    ELSE IF IsSpace(s[i]) THEN SplitFrom(s, i + 1)
    ELSE LET stops == {j \in i..Len(s) : IsSpace(s[j])}
             e == IF stops = {} THEN Len(s) + 1
                  ELSE CHOOSE j \in stops : \A k \in stops : j <= k
         IN  <<SubSeq(s, i, e - 1)>> \o SplitFrom(s, e)

Split(s) == SplitFrom(s, 1)

\* seq[:n] for n >= 0
Take(seq, n) == SubSeq(seq, 1, Min(n, Len(seq)))

\* `sub in s` on strings
Contains(s, sub) ==
    \E i \in 1..(Len(s) + 1) :
        /\ i + Len(sub) - 1 <= Len(s)
        /\ SubSeq(s, i, i + Len(sub) - 1) = sub

Range(f) == {f[i] : i \in DOMAIN f}

\* ------------------------------------------------------------------ strings
s_empty == <<>>
s_remote == <<"r", "e", "m", "o", "t", "e">>
s_hybrid == <<"h", "y", "b", "r", "i", "d">>
s_onsite == <<"o", "n", "s", "i", "t", "e">>
s_Remote == <<"R", "e", "m", "o", "t", "e">>
s_Hybrid == <<"H", "y", "b", "r", "i", "d">>
s_NYC == <<"N", "Y", "C">>
s_Austin == <<"A", "u", "s", "t", "i", "n">>
s_example_com == <<"e", "x", "a", "m", "p", "l", "e", ".", "c", "o", "m">>
s_example_job == <<"h", "t", "t", "p", "s", ":", "/", "/", "e", "x", "a", "m", "p",
                   "l", "e", ".", "c", "o", "m", "/", "j", "o", "b">>
s_PyDev == <<"P", "y", " ", "D", "e", "v">>
s_pydev2 == <<" ", "p", "y", " ", " ", "d", "e", "v">>
s_Dev == <<"D", "e", "v">>
s_DevPy == <<"D", "e", "v", " ", "P", "y">>
s_JuniorDev == <<"J", "u", "n", "i", "o", "r", " ", "D", "e", "v">>
s_Acme == <<"A", "c", "m", "e">>
s_acme == <<"a", "c", "m", "e", " ">>
s_Beta == <<"B", "e", "t", "a">>
s_u1 == <<"u", "/", "1">>
s_u2 == <<"u", "/", "2">>
s_u3 == <<"u", "/", "3">>
s_uex == <<"e", "x", "a", "m", "p", "l", "e", ".", "c", "o", "m", "/", "1">>
s_Startup == <<"S", "t", "a", "r", "t", "u", "p">>
s_startup == <<"s", "t", "a", "r", "t", "u", "p">>
s_unknown == <<"u", "n", "k", "n", "o", "w", "n">>

\* ------------------------------------------------------------------ raw records
\* A raw record as an adapter returns it (a dict); an absent key reads as the
\* default of job.get(key, default): '' for text, 0 for salary_min.
RawJob(t, c, l, u, s) ==
    [title |-> t, company |-> c, location |-> l, source_url |-> u, salary_min |-> s]

\* The records the adapters may return in the model.
RawJobs ==
    { RawJob(s_PyDev,  s_Acme, s_NYC,    s_u1,    0),
      RawJob(s_pydev2, s_acme, s_NYC,    s_u2,    0),       \* same key, other URL
      RawJob(s_Dev,    s_Acme, s_NYC,    s_u1,    0),       \* same URL, other key
      RawJob(s_DevPy,  s_Beta, s_Remote, s_u3,    0),
      RawJob(s_PyDev,  s_Acme, s_NYC,    s_empty, 0),       \* no URL
      RawJob(s_Dev,    s_Beta, s_Austin, s_uex,   0),       \* placeholder URL
      RawJob(s_empty,  s_Acme, s_NYC,    s_u2,    0),       \* no title
      RawJob(s_Dev,    s_Beta, s_Austin, s_u3,    200000) } \* salary above range

\* ------------------------------------------------------------------ deduplication
\* The key of _deduplicate_jobs: f"{title_words}_{company}_{location}" with
\* title_words the set of the first three words of the lower-cased title.
DedupKey(job) ==
    LET title == Strip(Lower(job.title))
        company == Strip(Lower(job.company))
        location == Strip(Lower(job.location))
        title_words == Range(Take(Split(title), 3))
    IN  <<title_words, company \o <<"_">> \o location>>

\* A loop that removes duplicates from the list it iterates over: after a
\* removal the iterator skips the following element.
RECURSIVE DedupSkipFrom(_, _, _, _)
DedupSkipFrom(jobs, i, seen, unique) ==
    IF i > Len(jobs) THEN unique
    ELSE IF DedupKey(jobs[i]) \notin seen
         THEN DedupSkipFrom(jobs, i + 1, seen \cup {DedupKey(jobs[i])},
                            Append(unique, jobs[i]))
         ELSE IF i + 1 <= Len(jobs)
              THEN DedupSkipFrom(jobs, i + 2, seen \cup {DedupKey(jobs[i + 1])},
                                 Append(unique, jobs[i + 1]))
              ELSE unique

DeduplicateJobsSkipping(jobs) == DedupSkipFrom(jobs, 1, {}, <<>>)

RECURSIVE DedupFrom(_, _, _, _)
DedupFrom(jobs, i, seen_combinations, unique_jobs) ==
    IF i > Len(jobs) THEN unique_jobs
    ELSE IF DedupKey(jobs[i]) \notin seen_combinations
         THEN DedupFrom(jobs, i + 1, seen_combinations \cup {DedupKey(jobs[i])},
                        Append(unique_jobs, jobs[i]))
         ELSE DedupFrom(jobs, i + 1, seen_combinations, unique_jobs)

\* MultiSourceCoordinator._deduplicate_jobs
DeduplicateJobs(jobs) == DedupFrom(jobs, 1, {}, <<>>)



\* ------------------------------------------------------------------ rationals
\* Scores are floats in the code; the model computes them as exact fractions
\* n/d with d > 0.
Abs(x) == IF x < 0 THEN -x ELSE x

RECURSIVE Gcd(_, _)
Gcd(a, b) == IF b = 0 THEN a ELSE Gcd(b, a % b)

\* n/d in lowest terms
Q(n, d) ==
    LET g == Gcd(Abs(n), d)
    IN  [n |-> n \div g, d |-> d \div g]
QInt(k) == Q(k, 1)
QAdd(a, b) == Q(a.n * b.d + b.n * a.d, a.d * b.d)
QMul(a, b) == Q(a.n * b.n, a.d * b.d)
\* a / b for b > 0
QDiv(a, b) == Q(a.n * b.d, a.d * b.n)
QLe(a, b) == a.n * b.d <= b.n * a.d
QEq(a, b) == a.n * b.d = b.n * a.d
QMin(a, b) == IF QLe(a, b) THEN a ELSE b

\* ------------------------------------------------------------------ dicts
EmptyDict == [k \in {} |-> 0]
\* d[k] = v
DictSet(d, k, v) == [x \in (DOMAIN d) \cup {k} |-> IF x = k THEN v ELSE d[x]]
\* d.get(k, default)
DictGet(d, k, default) == IF k \in DOMAIN d THEN d[k] ELSE default
\* d.setdefault(k, v)
DictSetDefault(d, k, v) == IF k \in DOMAIN d THEN d ELSE DictSet(d, k, v)

\* ------------------------------------------------------------------ JobScorer.__init__
\* JobScorer._build_skills_dict: 100 / len(skills) for every profile skill
BuildSkillsDict(prefs) ==
    IF Len(prefs.skills) = 0 THEN EmptyDict
    ELSE [sk \in Range(prefs.skills) |-> Q(100, Len(prefs.skills))]

\* the first loop of _build_location_preferences
RECURSIVE AddPreferredLocations(_, _, _)
AddPreferredLocations(locs, i, location_prefs) ==
    IF i > Len(locs) THEN location_prefs
    ELSE AddPreferredLocations(locs, i + 1,
            IF Lower(locs[i]) = s_remote
            THEN DictSet(location_prefs, s_Remote, 10)
            ELSE DictSet(location_prefs, locs[i], 8))

\* the inner loop of the 'onsite' branch
RECURSIVE AddOnsiteLocations(_, _, _)
AddOnsiteLocations(locs, i, location_prefs) ==
    IF i > Len(locs) THEN location_prefs
    ELSE AddOnsiteLocations(locs, i + 1,
            IF Lower(locs[i]) \notin {s_remote, s_hybrid}
            THEN DictSet(location_prefs, locs[i], 6)
            ELSE location_prefs)

\* the second loop of _build_location_preferences
RECURSIVE AddLocationTypes(_, _, _, _)
AddLocationTypes(types, i, locs, location_prefs) ==
    IF i > Len(types) THEN location_prefs
    ELSE AddLocationTypes(types, i + 1, locs,
            CASE types[i] = s_remote -> DictSet(location_prefs, s_Remote, 10)
              [] types[i] = s_hybrid -> DictSet(location_prefs, s_Hybrid, 8)
              [] types[i] = s_onsite -> AddOnsiteLocations(locs, 1, location_prefs)
              [] OTHER -> location_prefs)

\* JobScorer._build_location_preferences
BuildLocationPreferences(prefs) ==
    AddLocationTypes(prefs.location_types, 1, prefs.preferred_locations,
                     AddPreferredLocations(prefs.preferred_locations, 1, EmptyDict))

\* JobScorer._build_salary_target; int(max_salary * 1.3) truncates
BuildSalaryTarget(prefs) ==
    [min_acceptable |-> prefs.min_salary,
     target_min |-> prefs.min_salary,
     target_max |-> prefs.max_salary,
     dream |-> (prefs.max_salary * 13) \div 10]

\* JobScorer._build_company_preferences
BuildCompanyPreferences(prefs) ==
    DictSet([c \in {Lower(prefs.preferred_companies[i]) :
                        i \in DOMAIN prefs.preferred_companies} |-> 8],
            s_unknown, 3)

\* JobScorer._build_experience_preferences
BuildExperiencePreferences(prefs) ==
    LET levels == Range(prefs.experience_levels)
        e1 == IF "entry" \in levels THEN DictSet(EmptyDict, "entry", 15) ELSE EmptyDict
        e2 == IF "junior" \in levels THEN DictSet(e1, "junior", 12) ELSE e1
        e3 == IF "mid" \in levels THEN DictSet(e2, "mid", 8) ELSE e2
        e4 == IF "senior" \in levels THEN DictSet(e3, "senior", 5)
              ELSE DictSet(e3, "senior", -20)
    IN  DictSetDefault(DictSetDefault(e4, "lead", -30), "manager", -40)

\* self.weights: each category weight / 100
BuildWeights(prefs) ==
    [skills |-> Q(prefs.skills_weight, 100),
     experience |-> Q(prefs.experience_weight, 100),
     location |-> Q(prefs.location_weight, 100),
     salary |-> Q(prefs.salary_weight, 100),
     company |-> Q(prefs.company_weight, 100)]

\* ------------------------------------------------------------------ component scores
\* the loop of calculate_skills_score over job.required_skills
RECURSIVE SkillsLoop(_, _, _, _)
SkillsLoop(required, i, user_skills, acc) ==
    IF i > Len(required) THEN acc
    ELSE SkillsLoop(required, i + 1, user_skills,
            IF required[i] \in DOMAIN user_skills
            THEN [matching_skills |-> Append(acc.matching_skills, required[i]),
                  matched_weight |-> QAdd(acc.matched_weight, user_skills[required[i]]),
                  total_skill_weight |-> QAdd(acc.total_skill_weight, user_skills[required[i]])]
            ELSE [acc EXCEPT !.total_skill_weight = QAdd(@, QInt(5))])

\* A skills score that forgets the bonus for primary skills.
SkillsScoreWithoutBonus(scorer, job) ==
    IF Len(job.required_skills) = 0
    THEN [score |-> QInt(0), matching_skills |-> <<>>, missing_skills |-> <<>>]
    ELSE LET acc == SkillsLoop(job.required_skills, 1, scorer.user_skills,
                               [matching_skills |-> <<>>, matched_weight |-> QInt(0),
                                total_skill_weight |-> QInt(0)])
             base == IF acc.total_skill_weight.n = 0 THEN QInt(0)
                     ELSE QMul(QDiv(acc.matched_weight, acc.total_skill_weight), QInt(100))
         IN  [score |-> QMin(base, QInt(100)),
              matching_skills |-> acc.matching_skills,
              missing_skills |-> SelectSeq(job.required_skills,
                                    LAMBDA sk : sk \notin Range(acc.matching_skills))]

\* JobScorer.calculate_skills_score
CalculateSkillsScore(scorer, job) ==
    IF Len(job.required_skills) = 0
    THEN [score |-> QInt(0), matching_skills |-> <<>>, missing_skills |-> <<>>]
    ELSE LET user_skills == scorer.user_skills
             acc == SkillsLoop(job.required_skills, 1, user_skills,
                               [matching_skills |-> <<>>, matched_weight |-> QInt(0),
                                total_skill_weight |-> QInt(0)])
             base == IF acc.total_skill_weight.n = 0 THEN QInt(0)
                     ELSE QMul(QDiv(acc.matched_weight, acc.total_skill_weight), QInt(100))
             primary_skills_matched ==
                 Cardinality({k \in DOMAIN acc.matching_skills :
                     QLe(QInt(15), DictGet(user_skills, acc.matching_skills[k], QInt(0)))})
             score == QMin(QAdd(base, QInt(primary_skills_matched * 5)), QInt(100))
         IN  [score |-> score,
              matching_skills |-> acc.matching_skills,
              missing_skills |-> SelectSeq(job.required_skills,
                                    LAMBDA sk : sk \notin Range(acc.matching_skills))]

\* entry_keywords of calculate_experience_score
s_entry == <<"e", "n", "t", "r", "y">>
s_junior == <<"j", "u", "n", "i", "o", "r">>
s_new_grad == <<"n", "e", "w", " ", "g", "r", "a", "d">>
s_graduate == <<"g", "r", "a", "d", "u", "a", "t", "e">>
s_associate == <<"a", "s", "s", "o", "c", "i", "a", "t", "e">>
EntryKeywords == {s_entry, s_junior, s_new_grad, s_graduate, s_associate}
s_5p_years == <<"5", "+", " ", "y", "e", "a", "r", "s">>
s_5_years == <<"5", " ", "y", "e", "a", "r", "s">>
s_3p_years == <<"3", "+", " ", "y", "e", "a", "r", "s">>
s_3_years == <<"3", " ", "y", "e", "a", "r", "s">>

\* calculate_experience_score before the clamp of its return statement
ExperienceBaseScore(scorer, job) ==
    LET base_score == DictGet(scorer.experience_preferences, job.experience_level, 0)
        b1 == IF job.is_entry_level_friendly THEN base_score + 10 ELSE base_score
        title_lower == Lower(job.title)
        b2 == IF \E kw \in EntryKeywords : Contains(title_lower, kw) THEN b1 + 5 ELSE b1
        desc_lower == Lower(job.description)
        b3 == IF Contains(desc_lower, s_5p_years) \/ Contains(desc_lower, s_5_years)
              THEN b2 - 20 ELSE b2
    IN  IF Contains(desc_lower, s_3p_years) \/ Contains(desc_lower, s_3_years)
        THEN b3 - 10 ELSE b3

\* A return statement that forgets the clamp.
ExperienceUnclamped(scorer, job) == ExperienceBaseScore(scorer, job)

\* JobScorer.calculate_experience_score
CalculateExperienceScore(scorer, job) == Max(0, Min(ExperienceBaseScore(scorer, job), 100))

\* JobScorer.calculate_location_score; raised stands for the KeyError of
\* self.location_preferences['Remote'] / ['Hybrid']
CalculateLocationScore(scorer, job) ==
    LET location_preferences == scorer.location_preferences
        location_text == Lower(job.location \o <<" ">> \o job.location_type)
        hits == {location_preferences[k] : k \in
                    {x \in DOMAIN location_preferences : Contains(location_text, Lower(x))}}
        score == IF hits = {} THEN 0 ELSE CHOOSE p \in hits : \A q \in hits : q <= p
    IN  CASE job.location_type = s_remote ->
                IF s_Remote \in DOMAIN location_preferences
                THEN [raised |-> FALSE, score |-> Max(score, location_preferences[s_Remote])]
                ELSE [raised |-> TRUE, score |-> 0]
          [] job.location_type = s_hybrid ->
                IF s_Hybrid \in DOMAIN location_preferences
                THEN [raised |-> FALSE, score |-> Max(score, location_preferences[s_Hybrid])]
                ELSE [raised |-> TRUE, score |-> 0]
          [] OTHER -> [raised |-> FALSE, score |-> score]

\* JobScorer.calculate_salary_score; a missing salary (None) reads as 0
CalculateSalaryScore(scorer, job) ==
    LET salary_target == scorer.salary_target
        salary == IF job.salary_min # 0 THEN job.salary_min ELSE job.salary_max
    IN  IF job.salary_min = 0 /\ job.salary_max = 0 THEN 5
        ELSE IF salary < salary_target.min_acceptable THEN 0
        ELSE IF salary < salary_target.target_min THEN 5
        ELSE IF salary <= salary_target.target_max THEN 10
        ELSE IF salary <= salary_target.dream THEN 15
        ELSE 15

\* JobScorer.calculate_company_score
CalculateCompanyScore(scorer, job) ==
    LET company_type == IF job.company_type = s_empty THEN s_unknown ELSE job.company_type
    IN  DictGet(scorer.company_type_preferences, company_type, 0)

\* ------------------------------------------------------------------ total score
\* the weighted sum of calculate_total_score
WeightedTotal(weights, skills_score, experience_score, location_score, salary_score, company_score) ==
    QAdd(QMul(skills_score, weights.skills),
    QAdd(QMul(QInt(experience_score), weights.experience),
    QAdd(QMul(QInt(location_score), weights.location),
    QAdd(QMul(QInt(salary_score), weights.salary),
         QMul(QInt(company_score), weights.company)))))

\* meets_minimum of calculate_total_score
MeetsMinimum(skills_score, experience_score, total_score, min_threshold) ==
    /\ QLe(QInt(30), skills_score)
    /\ experience_score >= 0
    /\ QLe(QInt(min_threshold), total_score)

\* A recommendation flag that looks at the total score alone.
RecommendedByTotalOnly(total_score, recommend_at, meets_minimum) ==
    QLe(QInt(recommend_at), total_score)

\* recommended of calculate_total_score
Recommended(total_score, recommend_at, meets_minimum) ==
    QLe(QInt(recommend_at), total_score) /\ meets_minimum

\* the value of a call of calculate_total_score that raised
RaisedResult ==
    [raised |-> TRUE, skills_score |-> QInt(0), experience_score |-> 0,
     location_score |-> 0, salary_score |-> 0, company_score |-> 0,
     total_score |-> QInt(0), matching_skills |-> <<>>, missing_skills |-> <<>>,
     meets_minimum_requirements |-> FALSE, recommended_for_application |-> FALSE]

\* JobScorer.calculate_total_score
CalculateTotalScore(scorer, job) ==
    LET skills_data == CalculateSkillsScore(scorer, job)
        skills_score == skills_data.score
        experience_score == CalculateExperienceScore(scorer, job)
        location == CalculateLocationScore(scorer, job)
        location_score == location.score
        salary_score == CalculateSalaryScore(scorer, job)
        company_score == CalculateCompanyScore(scorer, job)
        total_score == WeightedTotal(scorer.weights, skills_score, experience_score,
                                     location_score, salary_score, company_score)
        meets_minimum == MeetsMinimum(skills_score, experience_score, total_score,
                                      scorer.min_threshold)
        recommended == Recommended(total_score, scorer.recommend_at, meets_minimum)
    IN  IF location.raised THEN RaisedResult
        ELSE [raised |-> FALSE,
              skills_score |-> skills_score,
              experience_score |-> experience_score,
              location_score |-> location_score,
              salary_score |-> salary_score,
              company_score |-> company_score,
              total_score |-> total_score,
              matching_skills |-> skills_data.matching_skills,
              missing_skills |-> skills_data.missing_skills,
              meets_minimum_requirements |-> meets_minimum,
              recommended_for_application |-> recommended]

\* JobScorer(preferences) of backend/jobs/scoring.py: the state __init__ builds,
\* with the thresholds calculate_total_score reads from the preferences
Scorer(prefs) ==
    [user_skills |-> BuildSkillsDict(prefs),
     location_preferences |-> BuildLocationPreferences(prefs),
     salary_target |-> BuildSalaryTarget(prefs),
     company_type_preferences |-> BuildCompanyPreferences(prefs),
     experience_preferences |-> BuildExperiencePreferences(prefs),
     weights |-> BuildWeights(prefs),
     min_threshold |-> prefs.min_job_score_threshold,
     recommend_at |-> prefs.min_job_score_threshold + 20]

\* ------------------------------------------------------------------ jobs/scoring.py
\* keys of the fixed location and company preferences of jobs/scoring.py
s_New_York == <<"N", "e", "w", " ", "Y", "o", "r", "k">>
s_Manhattan == <<"M", "a", "n", "h", "a", "t", "t", "a", "n">>
s_Brooklyn == <<"B", "r", "o", "o", "k", "l", "y", "n">>
s_Queens == <<"Q", "u", "e", "e", "n", "s">>
s_Bronx == <<"B", "r", "o", "n", "x">>
s_Staten_Island == <<"S", "t", "a", "t", "e", "n", " ", "I", "s", "l", "a", "n", "d">>
s_Jersey_City == <<"J", "e", "r", "s", "e", "y", " ", "C", "i", "t", "y">>
s_Hoboken == <<"H", "o", "b", "o", "k", "e", "n">>
s_tech == <<"t", "e", "c", "h">>
s_healthcare == <<"h", "e", "a", "l", "t", "h", "c", "a", "r", "e">>
s_fintech == <<"f", "i", "n", "t", "e", "c", "h">>

\* self.user_skills of jobs/scoring.py
LegacyUserSkills ==
    LET w == ("Python" :> 20) @@ ("Django" :> 20) @@ ("PostgreSQL" :> 15) @@
             ("React" :> 15) @@ ("Django REST Framework" :> 18) @@
             ("TypeScript" :> 10) @@ ("JavaScript" :> 10) @@ ("Node.js" :> 12) @@
             ("Express" :> 10) @@ ("AWS" :> 12) @@ ("Docker" :> 12) @@ ("Git" :> 8) @@
             ("CI/CD" :> 10) @@ ("HTML" :> 5) @@ ("CSS" :> 5) @@ ("TailwindCSS" :> 8) @@
             ("Jest" :> 8) @@ ("OAuth" :> 8) @@ ("Pandas" :> 10) @@ ("NumPy" :> 8) @@
             ("Flask" :> 12) @@ ("Celery" :> 10) @@ ("Redis" :> 10) @@
             ("Firebase" :> 8) @@ ("SQL" :> 12) @@ ("MongoDB" :> 10) @@
             ("REST API" :> 12) @@ ("GraphQL" :> 8) @@ ("Linux" :> 8) @@
             ("Kubernetes" :> 10)
    IN  [sk \in DOMAIN w |-> QInt(w[sk])]

\* self.location_preferences of jobs/scoring.py
LegacyLocationPreferences ==
    (s_New_York :> 5) @@ (s_NYC :> 5) @@ (s_Manhattan :> 5) @@ (s_Brooklyn :> 4) @@
    (s_Queens :> 4) @@ (s_Bronx :> 3) @@ (s_Staten_Island :> 2) @@
    (s_Jersey_City :> 3) @@ (s_Hoboken :> 3) @@ (s_Remote :> 8) @@ (s_Hybrid :> 6)

\* JobScorer() of jobs/scoring.py: the fixed profile of __init__, the fixed
\* weights and the thresholds 40 and 70 of calculate_total_score
LegacyScorer ==
    [user_skills |-> LegacyUserSkills,
     location_preferences |-> LegacyLocationPreferences,
     salary_target |-> [min_acceptable |-> 70000, target_min |-> 80000,
                        target_max |-> 120000, dream |-> 150000],
     company_type_preferences |->
        (s_startup :> 8) @@ (s_tech :> 5) @@ (s_healthcare :> 7) @@
        (s_fintech :> 7) @@ (s_unknown :> 0),
     experience_preferences |->
        ("entry" :> 15) @@ ("junior" :> 12) @@ ("mid" :> 5) @@ ("senior" :> -30) @@
        ("lead" :> -50) @@ ("manager" :> -50),
     weights |-> [skills |-> Q(45, 100), experience |-> Q(25, 100),
                  location |-> Q(15, 100), salary |-> Q(10, 100),
                  company |-> Q(5, 100)],
     min_threshold |-> 40,
     recommend_at |-> 70]

\* the scorer a run constructs: JobScorer(prefs) or the JobScorer() of jobs/scoring.py
ScorerOf(impl, prefs) == IF impl = "legacy" THEN LegacyScorer ELSE Scorer(prefs)

\* ------------------------------------------------------------------ scoring inputs
\* a UserPreferences row, the fields JobScorer reads
Profile(sk, lc, pl, lt, w, thr) ==
    [skills |-> sk, experience_levels |-> lc[1], preferred_locations |-> pl,
     location_types |-> lt, min_salary |-> 70000, max_salary |-> 120000,
     preferred_companies |-> lc[2],
     skills_weight |-> w[1], experience_weight |-> w[2], location_weight |-> w[3],
     salary_weight |-> w[4], company_weight |-> w[5],
     min_job_score_threshold |-> thr]

\* the model defaults of the five category weights
DefaultWeights == <<45, 25, 15, 10, 5>>

ProfileSkillLists ==
    { <<>>,
      <<"Python", "Django", "React">>,
      <<"Python", "Django", "React", "JavaScript", "HTML", "CSS", "Git">> }
\* <<experience_levels, preferred_companies>>
ProfileLevelsAndCompanies ==
    { << <<"entry", "junior">>, <<>> >>,
      << <<"mid", "senior">>, <<s_Startup>> >> }
\* <<preferred_locations, location_types>>
ProfileLocations ==
    { << <<>>, <<>> >>,
      << <<s_NYC>>, <<s_onsite>> >>,
      << <<s_NYC>>, <<s_remote, s_hybrid>> >>,
      << <<s_NYC, s_Remote>>, <<s_remote, s_hybrid, s_onsite>> >> }
ProfileWeights ==
    { DefaultWeights, <<90, 50, 30, 20, 10>>, <<0, 100, 0, 0, 0>>,
      <<0, 0, 0, 0, 0>>, <<-10, 60, 30, 10, 10>> }
ProfileThresholds == { 10, 50 }

Profiles ==
    { Profile(sk, lc, loc[1], loc[2], w, thr) :
        sk \in ProfileSkillLists, lc \in ProfileLevelsAndCompanies,
        loc \in ProfileLocations, w \in ProfileWeights, thr \in ProfileThresholds }

s_d0 == <<"B", "u", "i", "l", "d", " ", "A", "P", "I", "s">>
s_d5 == <<"N", "e", "e", "d", "s", " ", "5", "+", " ", "Y", "e", "a", "r", "s">>
s_d3 == <<"n", "e", "e", "d", "s", " ", "3", " ", "y", "e", "a", "r", "s">>

\* a Job row, the fields JobScorer reads (company_type is job.company.company_type)
ScoredJob(sk, tx, loc, sc) ==
    [required_skills |-> sk, experience_level |-> tx[1],
     is_entry_level_friendly |-> tx[2], title |-> tx[3], description |-> tx[4],
     location |-> loc[1], location_type |-> loc[2],
     salary_min |-> sc[1], salary_max |-> sc[2], company_type |-> sc[3]]

JobSkillLists == { <<>>, <<"Python", "Django", "PostgreSQL">>, <<"PostgreSQL">> }
\* <<experience_level, is_entry_level_friendly, title, description>>
JobTexts ==
    { <<"entry", TRUE, s_JuniorDev, s_d0>>, <<"entry", FALSE, s_Dev, s_d0>>,
      <<"entry", TRUE, s_Dev, s_d3>>, <<"senior", FALSE, s_Dev, s_d5>>,
      <<"senior", TRUE, s_JuniorDev, s_d0>>, <<"manager", FALSE, s_Dev, s_d0>> }
\* <<location, location_type>>
JobLocations ==
    { <<s_NYC, s_onsite>>, <<s_Remote, s_remote>>, <<s_Austin, s_hybrid>>,
      <<s_Austin, s_onsite>> }
\* <<salary_min, salary_max, company_type>>, 0 for a missing salary
JobSalariesAndCompanies ==
    { <<0, 0, s_empty>>, <<60000, 0, s_startup>>, <<0, 130000, s_startup>> }

ScoredJobs ==
    { ScoredJob(sk, tx, loc, sc) :
        sk \in JobSkillLists, tx \in JobTexts, loc \in JobLocations,
        sc \in JobSalariesAndCompanies }

\* ------------------------------------------------------------------ pure scoring runs
\* calculate_total_score is applied to the drawn posting and profile
ScoreCalculate ==
    /\ s_pc = "in"
    /\ s_res' = CalculateTotalScore(ScorerOf(s_impl, s_prefs), s_job)
    /\ s_pc' = "done"
    /\ UNCHANGED <<s_impl, s_prefs, s_job, coordVars, dedupVars, storeVars, prefsVars>>

InitScore ==
    /\ CoordIdle /\ DedupIdle /\ StoreIdle /\ PrefsIdle
    /\ s_pc = "in" /\ s_job \in ScoredJobs /\ s_res = <<>>
    /\ \/ s_impl = "backend" /\ s_prefs \in Profiles
       \/ s_impl = "legacy" /\ s_prefs = <<>>

NextScore == ScoreCalculate

SpecScore == InitScore /\ [][NextScore]_vars

\* ------------------------------------------------------------------ coordinator
\* self.scrapers, in insertion order
Registry == <<"remoteok", "indeed", "indeed_selenium", "python_jobs", "wellfound">>

\* priority_scrapers, less the names that are not registered
PrioritySources ==
    SelectSeq(<<"remoteok", "python_jobs", "indeed_selenium">>,
              LAMBDA n : n \in Range(Registry))

\* source_jobs[:30] in scrape_priority_sources
PriorityCap == 30

\* The coordinator's user_preferences (None when present is FALSE).
NoPrefs == [present |-> FALSE, max_salary |-> 0, preferred_locations |-> <<>>]
CoordPrefs ==
    { NoPrefs,
      [present |-> TRUE, max_salary |-> 120000, preferred_locations |-> <<s_NYC>>],
      [present |-> TRUE, max_salary |-> 120000, preferred_locations |-> <<>>] }

\* MultiSourceCoordinator._matches_user_preferences
MatchesUserPreferences(prefs, job) ==
    IF ~prefs.present THEN TRUE
    ELSE IF job.salary_min # 0 /\ 10 * job.salary_min > 12 * prefs.max_salary THEN FALSE
    ELSE LET job_location == Lower(job.location)
             preferred == [i \in DOMAIN prefs.preferred_locations |->
                              Lower(prefs.preferred_locations[i])]
             location_match == \E i \in DOMAIN preferred : Contains(job_location, preferred[i])
         IN  ~( /\ Len(preferred) > 0
                /\ ~location_match
                /\ ~Contains(job_location, s_remote)
                /\ s_remote \notin Range(preferred) )

\* one record of MultiSourceCoordinator._filter_quality_jobs
IsQualityJob(prefs, job) ==
    /\ job.title # s_empty
    /\ job.company # s_empty
    /\ job.source_url # s_empty
    /\ job.source_url # s_example_job
    /\ ~Contains(job.source_url, s_example_com)
    /\ MatchesUserPreferences(prefs, job)

\* MultiSourceCoordinator._filter_quality_jobs
FilterQualityJobs(prefs, jobs) == SelectSeq(jobs, LAMBDA j : IsQualityJob(prefs, j))

\* the sources one entry point iterates over
Sources(mode) == IF mode = "priority" THEN PrioritySources ELSE Registry

\* what the loop body keeps of one adapter's list
KeptOf(mode, arg, prefs, jobs) ==
    CASE mode = "all" -> Take(jobs, arg)
      [] mode = "priority" -> Take(jobs, PriorityCap)
      [] OTHER -> FilterQualityJobs(prefs, jobs)

\* An except clause that leaves the loop instead of continuing it.
BreakAfterError(i, n) == n + 1

\* `except Exception: ... continue`: the loop goes on with the next source
NextIndexAfterError(i, n) == i + 1

\* what the entry point returns once the loop is over
ReturnValue(mode, arg, all_jobs) ==
    IF mode = "targeted" THEN Take(DeduplicateJobs(all_jobs), arg)
    ELSE DeduplicateJobs(all_jobs)

\* scrape_all_sources(max_jobs_per_source) is called
CoordStartAll(prefs, m) ==
    /\ c_pc = "idle"
    /\ c_pc' = "loop" /\ c_mode' = "all" /\ c_arg' = m /\ c_prefs' = prefs /\ c_i' = 1
    /\ c_scrapers' = Range(Registry)
    /\ UNCHANGED <<c_all, c_got, c_invoked, c_failed, c_result, c_max_jobs, dedupVars, scoreVars, prefsVars, storeVars>>

\* scrape_priority_sources() is called
CoordStartPriority(prefs) ==
    /\ c_pc = "idle"
    /\ c_pc' = "loop" /\ c_mode' = "priority" /\ c_arg' = 0 /\ c_prefs' = prefs /\ c_i' = 1
    /\ c_scrapers' = Range(Registry)
    /\ UNCHANGED <<c_all, c_got, c_invoked, c_failed, c_result, c_max_jobs, dedupVars, scoreVars, prefsVars, storeVars>>

\* scrape_targeted_search(specific_terms, max_results) is called
CoordStartTargeted(prefs, m) ==
    /\ c_pc = "idle"
    /\ c_pc' = "loop" /\ c_mode' = "targeted" /\ c_arg' = m /\ c_prefs' = prefs /\ c_i' = 1
    /\ c_scrapers' = Range(Registry)
    /\ UNCHANGED <<c_all, c_got, c_invoked, c_failed, c_result, c_max_jobs, dedupVars, scoreVars, prefsVars, storeVars>>

\* largest --max-jobs the model passes
MaxJobsOption == 4

\* the entry point and argument scrape_multiple_sources chooses from
\* --sources, --max-jobs and --search-terms
CommandMode(sources, has_terms) ==
    CASE sources = "all" -> "all"
      [] sources = "priority" -> "priority"
      [] OTHER -> IF has_terms THEN "targeted" ELSE "priority"

CommandArg(mode, max_jobs) ==
    CASE mode = "all" -> max_jobs \div 4
      [] mode = "targeted" -> max_jobs
      [] OTHER -> 0

\* scrape_multiple_sources calls the Coordinator it built from the active
\* preferences
ScrapeMultipleSources(prefs, sources, has_terms, max_jobs) ==
    /\ c_pc = "idle"
    /\ prefs.present
    /\ c_pc' = "loop"
    /\ c_mode' = CommandMode(sources, has_terms)
    /\ c_arg' = CommandArg(c_mode', max_jobs)
    /\ c_prefs' = prefs /\ c_i' = 1
    /\ c_scrapers' = Range(Registry)
    /\ c_max_jobs' = max_jobs
    /\ UNCHANGED <<c_all, c_got, c_invoked, c_failed, c_result, dedupVars, scoreVars, prefsVars, storeVars>>

\* the loop body when the adapter's scrape_jobs returns `jobs`
CoordAdapterReturns(jobs) ==
    /\ c_pc = "loop"
    /\ c_i <= Len(Sources(c_mode))
    /\ LET kept == KeptOf(c_mode, c_arg, c_prefs, jobs)
       IN  /\ Len(c_all) + Len(kept) <= MaxRaw
           /\ c_all' = c_all \o kept
           /\ c_got' = c_got \o kept
    /\ c_invoked' = Append(c_invoked, Sources(c_mode)[c_i])
    /\ c_i' = c_i + 1
    /\ UNCHANGED <<c_pc, c_mode, c_arg, c_prefs, c_failed, c_result, c_max_jobs, c_scrapers, dedupVars, scoreVars, prefsVars, storeVars>>

\* the loop body when the adapter call (or get_search_terms) raises
CoordAdapterRaises ==
    /\ c_pc = "loop"
    /\ c_i <= Len(Sources(c_mode))
    /\ c_invoked' = Append(c_invoked, Sources(c_mode)[c_i])
    /\ c_failed' = c_failed \cup {Sources(c_mode)[c_i]}
    /\ c_i' = NextIndexAfterError(c_i, Len(Sources(c_mode)))
    /\ UNCHANGED <<c_pc, c_mode, c_arg, c_prefs, c_all, c_got, c_result, c_max_jobs, c_scrapers, dedupVars, scoreVars, prefsVars, storeVars>>

\* after the loop: deduplicate and return
CoordFinish ==
    /\ c_pc = "loop"
    /\ c_i > Len(Sources(c_mode))
    /\ c_result' = ReturnValue(c_mode, c_arg, c_all)
    /\ c_pc' = "done"
    /\ UNCHANGED <<c_mode, c_arg, c_prefs, c_i, c_all, c_got, c_invoked, c_failed, c_max_jobs, c_scrapers, dedupVars, scoreVars, prefsVars, storeVars>>

InitCoord == CoordIdle /\ DedupIdle /\ ScoreIdle /\ StoreIdle /\ PrefsIdle

NextCoord ==
    \/ \E p \in CoordPrefs, m \in 0..MaxReturn : CoordStartAll(p, m)
    \/ \E p \in CoordPrefs : CoordStartPriority(p)
    \/ \E p \in CoordPrefs, m \in 1..MaxRaw : CoordStartTargeted(p, m)
    \/ \E p \in CoordPrefs, sources \in {"all", "priority", "remoteok"}, has_terms \in BOOLEAN,
          n \in 1..MaxJobsOption : ScrapeMultipleSources(p, sources, has_terms, n)
    \/ \E jobs \in SeqUpTo(RawJobs, MaxReturn) : CoordAdapterReturns(jobs)
    \/ CoordAdapterRaises
    \/ CoordFinish

SpecCoord == InitCoord /\ [][NextCoord]_vars

\* ------------------------------------------------------------------ expand_job_sources
\* the search terms and locations the API tier uses per source (the command
\* takes the first 8 terms and the first 4 locations)
MaxApiTerms == 2
MaxApiLocations == 2

\* the calls one source of a tier is asked for: terms x locations, the
\* location loop inside the term loop
SitesOf(tier, source, nterms, nlocs) ==
    [k \in 1..(nterms * nlocs) |->
        [tier |-> tier, source |-> source,
         term |-> ((k - 1) \div nlocs) + 1, loc |-> ((k - 1) % nlocs) + 1, nlocs |-> nlocs]]

\* every call of the five steps, in program order: API sources, RemoteOK,
\* Python.org, Wellfound (two locations), Indeed (two terms, two locations)
ExpandSites ==
    SitesOf(1, "jsearch", MaxApiTerms, MaxApiLocations)
      \o SitesOf(1, "adzuna", MaxApiTerms, MaxApiLocations)
      \o SitesOf(1, "reed", MaxApiTerms, MaxApiLocations)
      \o SitesOf(1, "rise", MaxApiTerms, MaxApiLocations)
      \o SitesOf(2, "remoteok", 1, 1)
      \o SitesOf(3, "python_jobs", 1, 1)
      \o SitesOf(4, "wellfound", 1, 2)
      \o SitesOf(5, "indeed_selenium", 2, 2)
      \o SitesOf(5, "indeed", 2, 2)

\* `if source_name in coordinator.scrapers`
ExpandPlan(scrapers) == SelectSeq(ExpandSites, LAMBDA site : site.source \in scrapers)

\* the registries the command is run with
ExpandRegistries ==
    { Range(Registry), Range(Registry) \cup {"jsearch", "adzuna"}, {"wellfound"}, {"jsearch", "indeed"} }

\* the first call of the source after the one of plan[i]
NextSource(plan, i) ==
    IF \E j \in (i + 1)..Len(plan) : plan[j].source # plan[i].source
    THEN CHOOSE j \in (i + 1)..Len(plan) :
            /\ plan[j].source # plan[i].source
            /\ \A h \in (i + 1)..(j - 1) : plan[h].source = plan[i].source
    ELSE Len(plan) + 1

IsFirstSite(plan, i) == IF i = 1 THEN TRUE ELSE plan[i - 1].source # plan[i].source

\* `and len(all_scraped_jobs) < max_jobs` at the head of a source of steps 2
\* to 5; the API step has no such test
SourceSkipped(plan, i, collected, max_jobs) ==
    plan[i].tier > 1 /\ IsFirstSite(plan, i) /\ collected >= max_jobs

\* where the loops go on after a call returned: the API step leaves both
\* loops of the source once max_jobs is reached
AfterReturn(plan, i, collected, max_jobs) ==
    IF plan[i].tier = 1 /\ collected >= max_jobs THEN NextSource(plan, i) ELSE i + 1

\* where the loops go on after a call raised: the API step continues with
\* the next location and tests max_jobs after the last one; Wellfound's two
\* calls share one try; Indeed continues with the next call
AfterRaise(plan, i, collected, max_jobs) ==
    CASE plan[i].tier = 1 ->
            IF plan[i].loc = plan[i].nlocs /\ collected >= max_jobs
            THEN NextSource(plan, i) ELSE i + 1
      [] plan[i].tier = 4 -> NextSource(plan, i)
      [] OTHER -> i + 1

\* expand_job_sources --max-jobs max_jobs starts with a Coordinator that
\* has the given scrapers
ExpandStart(scrapers, max_jobs) ==
    /\ c_pc = "idle"
    /\ c_pc' = "expand" /\ c_mode' = "expand" /\ c_i' = 1
    /\ c_scrapers' = scrapers /\ c_max_jobs' = max_jobs
    /\ UNCHANGED <<c_arg, c_prefs, c_all, c_got, c_invoked, c_failed, c_result, dedupVars, scoreVars, prefsVars, storeVars>>

\* a source of steps 2 to 5 is passed over because max_jobs is reached
ExpandSkipSource ==
    LET plan == ExpandPlan(c_scrapers)
    IN  /\ c_pc = "expand" /\ c_i <= Len(plan)
        /\ SourceSkipped(plan, c_i, Len(c_all), c_max_jobs)
        /\ c_i' = NextSource(plan, c_i)
        /\ UNCHANGED <<c_pc, c_mode, c_arg, c_prefs, c_all, c_got, c_invoked, c_failed, c_result, c_max_jobs, c_scrapers, dedupVars, scoreVars, prefsVars, storeVars>>

\* scraper.scrape_jobs(...) is called and returns jobs
ExpandCallReturns(jobs) ==
    LET plan == ExpandPlan(c_scrapers)
    IN  /\ c_pc = "expand" /\ c_i <= Len(plan)
        /\ ~SourceSkipped(plan, c_i, Len(c_all), c_max_jobs)
        /\ Len(c_all) + Len(jobs) <= MaxRaw
        /\ c_all' = c_all \o jobs
        /\ c_invoked' = Append(c_invoked, plan[c_i].source)
        /\ c_i' = AfterReturn(plan, c_i, Len(c_all'), c_max_jobs)
        /\ UNCHANGED <<c_pc, c_mode, c_arg, c_prefs, c_got, c_failed, c_result, c_max_jobs, c_scrapers, dedupVars, scoreVars, prefsVars, storeVars>>

\* scraper.scrape_jobs(...) is called and raises
ExpandCallRaises ==
    LET plan == ExpandPlan(c_scrapers)
    IN  /\ c_pc = "expand" /\ c_i <= Len(plan)
        /\ ~SourceSkipped(plan, c_i, Len(c_all), c_max_jobs)
        /\ c_invoked' = Append(c_invoked, plan[c_i].source)
        /\ c_i' = AfterRaise(plan, c_i, Len(c_all), c_max_jobs)
        /\ UNCHANGED <<c_pc, c_mode, c_arg, c_prefs, c_all, c_got, c_failed, c_result, c_max_jobs, c_scrapers, dedupVars, scoreVars, prefsVars, storeVars>>

\* after step 5: coordinator._deduplicate_jobs(all_scraped_jobs)
ExpandFinish ==
    /\ c_pc = "expand" /\ c_i > Len(ExpandPlan(c_scrapers))
    /\ c_result' = DeduplicateJobs(c_all)
    /\ c_pc' = "done"
    /\ UNCHANGED <<c_mode, c_arg, c_prefs, c_i, c_all, c_got, c_invoked, c_failed, c_max_jobs, c_scrapers, dedupVars, scoreVars, prefsVars, storeVars>>

NextExpand ==
    \/ \E scrapers \in ExpandRegistries, n \in 1..MaxJobsOption : ExpandStart(scrapers, n)
    \/ ExpandSkipSource
    \/ \E jobs \in SeqUpTo(RawJobs, MaxReturn) : ExpandCallReturns(jobs)
    \/ ExpandCallRaises
    \/ ExpandFinish

SpecExpand == InitCoord /\ [][NextExpand]_vars

\* ------------------------------------------------------------------ MultiSourceScraper
\* MultiSourceScraper.scrape_jobs on the coordinator's variables: c_i is the
\* adapter whose try block comes next, c_all the postings collected from the
\* real adapters, c_failed the adapters that raised, c_result the returned list.
\* A posting is its 'source' tag and its position in the list its scraper built.

\* the 'source' tag of the postings of remoteok_scraper, python_jobs_scraper,
\* dice_scraper and wellfound_scraper, in the order scrape_jobs calls them
MultiAdapters == <<"RemoteOK", "Python.org", "Dice.com", "Wellfound">>

\* the companies and job_templates of EnhancedJobScraper.scrape_jobs
EnhancedCompanies == 6
EnhancedTemplates == 5

\* EnhancedJobScraper.scrape_jobs: one posting per company and template
EnhancedJobs ==
    [k \in 1..(EnhancedCompanies * EnhancedTemplates) |->
        [source |-> "enhanced_scraper", job_id |-> k]]

\* scrape_jobs supplements below SupplementBelow postings with at most
\* SupplementLimit test postings
SupplementBelow == 5
SupplementLimit == 10

\* A supplement that does not look at the number collected.
SupplementedAlways(all_jobs) == all_jobs \o Take(EnhancedJobs, SupplementLimit)

\* the tail of scrape_jobs: if len(all_jobs) < 5, extend with enhanced_jobs[:10]
Supplemented(all_jobs) ==
    IF Len(all_jobs) < SupplementBelow
    THEN all_jobs \o Take(EnhancedJobs, SupplementLimit)
    ELSE all_jobs

\* the list an adapter returns: n postings with its tag
AdapterJobs(i, n) == [k \in 1..n |-> [source |-> MultiAdapters[i], job_id |-> k]]

MultiStart ==
    /\ c_pc = "idle"
    /\ c_pc' = "multi" /\ c_mode' = "multi_source_scraper" /\ c_i' = 1
    /\ UNCHANGED <<c_arg, c_prefs, c_all, c_got, c_invoked, c_failed, c_result, c_max_jobs, c_scrapers, dedupVars, scoreVars, prefsVars, storeVars>>

\* the adapter's scrape_jobs returns n postings: all_jobs.extend(...)
MultiAdapterReturns(n) ==
    /\ c_pc = "multi" /\ c_i <= Len(MultiAdapters)
    /\ c_all' = c_all \o AdapterJobs(c_i, n)
    /\ c_i' = c_i + 1
    /\ UNCHANGED <<c_pc, c_mode, c_arg, c_prefs, c_got, c_invoked, c_failed, c_result, c_max_jobs, c_scrapers, dedupVars, scoreVars, prefsVars, storeVars>>

\* the adapter's scrape_jobs raises: the except clause logs the error
MultiAdapterRaises ==
    /\ c_pc = "multi" /\ c_i <= Len(MultiAdapters)
    /\ c_failed' = c_failed \cup {MultiAdapters[c_i]}
    /\ c_i' = c_i + 1
    /\ UNCHANGED <<c_pc, c_mode, c_arg, c_prefs, c_all, c_got, c_invoked, c_result, c_max_jobs, c_scrapers, dedupVars, scoreVars, prefsVars, storeVars>>

\* after the four try blocks: the supplement and the return
MultiFinish ==
    /\ c_pc = "multi" /\ c_i > Len(MultiAdapters)
    /\ c_result' = Supplemented(c_all)
    /\ c_pc' = "done"
    /\ UNCHANGED <<c_mode, c_arg, c_prefs, c_i, c_all, c_got, c_invoked, c_failed, c_max_jobs, c_scrapers, dedupVars, scoreVars, prefsVars, storeVars>>

NextMulti ==
    \/ MultiStart
    \/ \E n \in 0..MaxReturn : MultiAdapterReturns(n)
    \/ MultiAdapterRaises
    \/ MultiFinish

SpecMulti == InitCoord /\ [][NextMulti]_vars

\* ------------------------------------------------------------------ pure dedup runs
DedupOnce ==
    /\ d_pc = "in"
    /\ d_out1' = DeduplicateJobs(d_in)
    /\ d_pc' = "once"
    /\ UNCHANGED <<d_in, d_out2, coordVars, scoreVars, prefsVars, storeVars>>

DedupTwice ==
    /\ d_pc = "once"
    /\ d_out2' = DeduplicateJobs(d_out1)
    /\ d_pc' = "twice"
    /\ UNCHANGED <<d_in, d_out1, coordVars, scoreVars, prefsVars, storeVars>>

InitDedup ==
    /\ CoordIdle /\ ScoreIdle /\ StoreIdle /\ PrefsIdle
    /\ d_pc = "in" /\ d_in \in SeqUpTo(RawJobs, MaxLen) /\ d_out1 = <<>> /\ d_out2 = <<>>

NextDedup == DedupOnce \/ DedupTwice

SpecDedup == InitDedup /\ [][NextDedup]_vars

\* ------------------------------------------------------------------ JSearch dedup runs
\* the records _search_jsearch_api builds, by the two keys the deduplication
\* reads: external_id (job_id of the API, '' when absent) and source_url
\* (job_apply_link, '' when absent)
JSearchJobs ==
    { [external_id |-> id, source_url |-> url] :
        id \in {"", "j1", "j2"}, url \in {"", "apply/1", "apply/2"} }

\* the loop of JSearchAPIScraper._deduplicate_jobs from record i on
RECURSIVE JSearchDedupFrom(_, _, _, _, _)
JSearchDedupFrom(jobs, i, seen_ids, seen_urls, unique_jobs) ==
    IF i > Len(jobs) THEN unique_jobs
    ELSE LET job_id == jobs[i].external_id
             job_url == jobs[i].source_url
         IN  IF job_id # "" /\ job_id \notin seen_ids
             THEN JSearchDedupFrom(jobs, i + 1, seen_ids \cup {job_id}, seen_urls,
                                   Append(unique_jobs, jobs[i]))
             ELSE IF job_url # "" /\ job_url \notin seen_urls
             THEN JSearchDedupFrom(jobs, i + 1, seen_ids, seen_urls \cup {job_url},
                                   Append(unique_jobs, jobs[i]))
             ELSE JSearchDedupFrom(jobs, i + 1, seen_ids, seen_urls, unique_jobs)

\* JSearchAPIScraper._deduplicate_jobs
JSearchDeduplicateJobs(jobs) == JSearchDedupFrom(jobs, 1, {}, {}, <<>>)

\* scrape_jobs passes the collected batches to _deduplicate_jobs
JSearchDedup ==
    /\ d_pc = "jsearch"
    /\ d_out1' = JSearchDeduplicateJobs(d_in)
    /\ d_pc' = "jsearch_done"
    /\ UNCHANGED <<d_in, d_out2, coordVars, scoreVars, prefsVars, storeVars>>

InitJSearch ==
    /\ CoordIdle /\ ScoreIdle /\ StoreIdle /\ PrefsIdle
    /\ d_pc = "jsearch" /\ d_in \in SeqUpTo(JSearchJobs, MaxLen) /\ d_out1 = <<>> /\ d_out2 = <<>>

NextJSearch == JSearchDedup

SpecJSearch == InitJSearch /\ [][NextJSearch]_vars

\* ------------------------------------------------------------------ active preferences
\* UserPreferences.get_active_preferences called by concurrent workers. up_rows
\* holds the ids of the active UserPreferences rows, numbered in the order of
\* their creation; up_pc[c] is the position of caller c ("call" before the
\* query, "create" between the query and the create, "done" after the
\* return) and up_prefs[c] its local prefs (0 for None).
Callers == 1..MaxCallers

\* cls.objects.filter(is_active=True).first() under ordering -updated_at: the
\* row saved last, None when there is none
FirstActive(rows) ==
    IF rows = {} THEN 0 ELSE CHOOSE id \in rows : \A other \in rows : other <= id

\* prefs = cls.objects.filter(is_active=True).first(); a row found is returned
GetActiveQuery(c) ==
    /\ up_pc[c] = "call"
    /\ up_prefs' = [up_prefs EXCEPT ![c] = FirstActive(up_rows)]
    /\ up_pc' = [up_pc EXCEPT ![c] = IF FirstActive(up_rows) = 0 THEN "create" ELSE "done"]
    /\ UNCHANGED <<up_rows, coordVars, dedupVars, scoreVars, storeVars>>

\* if not prefs: prefs = cls.objects.create(...); return prefs
GetActiveCreate(c) ==
    /\ up_pc[c] = "create"
    /\ up_rows' = up_rows \cup {Cardinality(up_rows) + 1}
    /\ up_prefs' = [up_prefs EXCEPT ![c] = Cardinality(up_rows) + 1]
    /\ up_pc' = [up_pc EXCEPT ![c] = "done"]
    /\ UNCHANGED <<coordVars, dedupVars, scoreVars, storeVars>>

\* a store with no profile and the callers about to call
InitPrefs ==
    /\ CoordIdle /\ DedupIdle /\ ScoreIdle /\ StoreIdle
    /\ up_rows = {}
    /\ up_pc = [c \in Callers |-> "call"]
    /\ up_prefs = [c \in Callers |-> 0]

NextPrefs ==
    \/ \E c \in Callers : GetActiveQuery(c)
    \/ \E c \in Callers : GetActiveCreate(c)

SpecPrefs == InitPrefs /\ [][NextPrefs]_vars

\* ------------------------------------------------------------------ the store
\* Job rows are [id, source_url, job]; JobScore rows are keyed by the id of
\* their job (OneToOneField); a deleted Job takes its JobScore with it
\* (on_delete = CASCADE).

\* the scraped records that reach the save loops: the same URL with two
\* contents, no URL, a placeholder URL
StoreRecords ==
    << [source_url |-> s_u1,
        job |-> ScoredJob(<<"Python", "Django">>, <<"entry", TRUE, s_JuniorDev, s_d0>>,
                          <<s_Remote, s_remote>>, <<0, 0, s_empty>>)],
       [source_url |-> s_u2,
        job |-> ScoredJob(<<>>, <<"entry", TRUE, s_JuniorDev, s_d0>>,
                          <<s_NYC, s_onsite>>, <<0, 0, s_empty>>)],
       [source_url |-> s_empty,
        job |-> ScoredJob(<<"Python", "Django">>, <<"entry", FALSE, s_Dev, s_d0>>,
                          <<s_NYC, s_onsite>>, <<0, 0, s_empty>>)],
       [source_url |-> s_uex,
        job |-> ScoredJob(<<"Python", "Django">>, <<"entry", FALSE, s_Dev, s_d0>>,
                          <<s_NYC, s_onsite>>, <<0, 0, s_empty>>)] >>

s_sample_title1 == <<"S", "e", "n", "i", "o", "r", " ", "P", "y", "t", "h", "o", "n", " ",
    "D", "e", "v", "e", "l", "o", "p", "e", "r">>
s_sample_title2 == <<"F", "u", "l", "l", " ", "S", "t", "a", "c", "k", " ", "D", "e", "v",
    "e", "l", "o", "p", "e", "r">>
s_sample_title3 == <<"B", "a", "c", "k", "e", "n", "d", " ", "E", "n", "g", "i", "n", "e",
    "e", "r">>
s_sample_desc1 == <<"W", "e", " ", "a", "r", "e", " ", "l", "o", "o", "k", "i", "n", "g", " ",
    "f", "o", "r", " ", "a", "n", " ", "e", "x", "p", "e", "r", "i", "e", "n", "c", "e", "d",
    " ", "P", "y", "t", "h", "o", "n", " ", "d", "e", "v", "e", "l", "o", "p", "e", "r", " ",
    "w", "i", "t", "h", " ", "D", "j", "a", "n", "g", "o", " ", "e", "x", "p", "e", "r", "t",
    "i", "s", "e", ".">>
s_sample_desc2 == <<"J", "o", "i", "n", " ", "o", "u", "r", " ", "t", "e", "a", "m", " ", "t",
    "o", " ", "b", "u", "i", "l", "d", " ", "a", "m", "a", "z", "i", "n", "g", " ", "w", "e",
    "b", " ", "a", "p", "p", "l", "i", "c", "a", "t", "i", "o", "n", "s", " ", "u", "s", "i",
    "n", "g", " ", "R", "e", "a", "c", "t", " ", "a", "n", "d", " ", "P", "y", "t", "h", "o",
    "n", ".">>
s_sample_desc3 == <<"B", "a", "c", "k", "e", "n", "d", " ", "e", "n", "g", "i", "n", "e", "e",
    "r", " ", "p", "o", "s", "i", "t", "i", "o", "n", " ", "f", "o", "c", "u", "s", "i", "n",
    "g", " ", "o", "n", " ", "A", "P", "I", " ", "d", "e", "v", "e", "l", "o", "p", "m", "e",
    "n", "t", " ", "a", "n", "d", " ", "d", "a", "t", "a", " ", "p", "r", "o", "c", "e", "s",
    "s", "i", "n", "g", ".">>
s_sample_loc1 == <<"N", "e", "w", " ", "Y", "o", "r", "k", ",", " ", "N", "Y">>
s_sample_loc3 == <<"S", "a", "n", " ", "F", "r", "a", "n", "c", "i", "s", "c", "o", ",", " ",
    "C", "A">>
s_sample_url1 == <<"h", "t", "t", "p", "s", ":", "/", "/", "e", "x", "a", "m", "p", "l", "e",
    "-", "j", "o", "b", "s", ".", "c", "o", "m", "/", "j", "o", "b", "/", "1">>
s_sample_url2 == <<"h", "t", "t", "p", "s", ":", "/", "/", "e", "x", "a", "m", "p", "l", "e",
    "-", "j", "o", "b", "s", ".", "c", "o", "m", "/", "j", "o", "b", "/", "2">>
s_sample_url3 == <<"h", "t", "t", "p", "s", ":", "/", "/", "e", "x", "a", "m", "p", "l", "e",
    "-", "j", "o", "b", "s", ".", "c", "o", "m", "/", "j", "o", "b", "/", "3">>

\* location_type of a sample job: 'remote' if 'remote' in location.lower() else 'hybrid'
SampleLocationType(location) ==
    IF Contains(Lower(location), s_remote) THEN s_remote ELSE s_hybrid

\* the Job rows create_sample_jobs builds from its sample_jobs list
SampleRecords ==
    << [source_url |-> s_sample_url1,
        job |-> ScoredJob(<<"Python", "Django", "PostgreSQL", "AWS">>,
                          <<"mid", FALSE, s_sample_title1, s_sample_desc1>>,
                          <<s_sample_loc1, SampleLocationType(s_sample_loc1)>>,
                          <<120000, 160000, s_tech>>)],
       [source_url |-> s_sample_url2,
        job |-> ScoredJob(<<"React", "JavaScript", "Python", "Node.js">>,
                          <<"mid", FALSE, s_sample_title2, s_sample_desc2>>,
                          <<s_Remote, SampleLocationType(s_Remote)>>,
                          <<90000, 130000, s_tech>>)],
       [source_url |-> s_sample_url3,
        job |-> ScoredJob(<<"Python", "Django", "REST APIs", "Docker">>,
                          <<"mid", FALSE, s_sample_title3, s_sample_desc3>>,
                          <<s_sample_loc3, SampleLocationType(s_sample_loc3)>>,
                          <<110000, 150000, s_tech>>)] >>

\* every record a Job row can come from: row.record is an index into this list
AllRecords == StoreRecords \o SampleRecords

\* the contents the active UserPreferences row can have; st_prefs and the
\* prefs of a run are indexes into this list
StoreProfiles ==
    << Profile(<<"Python", "Django", "React">>, << <<"entry", "junior">>, <<>> >>,
               <<s_NYC, s_Remote>>, <<s_remote, s_hybrid, s_onsite>>, DefaultWeights, 10),
       Profile(<<"Python", "Django", "React">>, << <<"entry", "junior">>, <<>> >>,
               <<s_NYC>>, <<s_onsite>>, <<0, 100, 0, 0, 0>>, 0) >>

\* JobScorer(preferences) for each of them
StoreScorers == [i \in DOMAIN StoreProfiles |-> Scorer(StoreProfiles[i])]

\* the save loops and the loops that rescore stored jobs
SaveKinds ==
    { "maximize_jobs_task", "api_refresh_jobs", "scrape_multiple_sources",
      "expand_job_sources", "simple_job_refresh", "scrape_jobs_task" }
RescoreKinds ==
    { "score_all_jobs", "rescore_all_jobs", "quick_rescore", "update_user_preferences" }

\* the workers; each executes one task or command, concurrently with the other
Runs == { "r1", "r2" }

\* a run: its kind, its position, the index of the profile its scorer was
\* built from, the threshold of its loop, the records (todo) or job ids (ids)
\* it still has to visit, the record it is creating and the job it created,
\* the state of the background refresh that UserPreferences.save() queues
\* ("none", "pending", "ran"), and the saved_count of a save loop
IdleRun ==
    [kind |-> "none", pc |-> "idle", prefs |-> 0, min_score |-> QInt(0),
     todo |-> 0, ids |-> {}, cur |-> 0, job_id |-> 0, refresh |-> "none",
     saved_count |-> 0]

\* Job.objects.filter(source_url=source_url).exists(); also the unique
\* constraint of Job.source_url, which Job.objects.create checks
UrlExists(jobs, url) == \E row \in jobs : row.source_url = url

\* A create that checks no constraint.
NoUniqueConstraint(jobs, url) == FALSE

\* Job.objects.create raises IntegrityError for a source_url already stored
UniqueViolation(jobs, url) == UrlExists(jobs, url)

\* 'example.com' in source_url / source_url__icontains='example.com'
IsExampleUrl(url) == Contains(Lower(url), s_example_com)

\* the guard on source_url at the head of a save loop's body
UrlRejected(kind, url) ==
    CASE kind = "scrape_jobs_task" -> FALSE
      [] kind = "scrape_multiple_sources" -> url = s_empty
      [] OTHER -> url = s_empty \/ IsExampleUrl(url)

\* the save loops whose body is wrapped in try / except Exception: continue
HasPerRecordTry(kind) == kind # "api_refresh_jobs"

\* scrape_multiple_sources wraps the body in transaction.atomic()
IsAtomic(kind) == kind = "scrape_multiple_sources"

\* the Job row that Job.objects.create writes from record k: the save loops
\* leave is_entry_level_friendly at its default and get_or_create their
\* Company as 'tech'; scrape_jobs_task passes the flag and creates the
\* Company as 'unknown'. The other fields are those of the record; age is
\* the number of days since scraped_at (auto_now_add), is_active its default.
JobFromRecord(kind, k, id) ==
    [id |-> id, source_url |-> AllRecords[k].source_url, record |-> k,
     age |-> 0, is_active |-> TRUE,
     is_entry_level_friendly |->
        kind = "scrape_jobs_task" /\ AllRecords[k].job.is_entry_level_friendly,
     company_type |-> IF kind = "scrape_jobs_task" THEN s_unknown ELSE s_tech]

\* the Job object of a row, as the scorer reads it
StoredJob(row) ==
    [AllRecords[row.record].job EXCEPT
        !.is_entry_level_friendly = row.is_entry_level_friendly,
        !.company_type = row.company_type]

\* the Job objects the store can hold
StoreJobs ==
    { StoredJob(JobFromRecord(kind, k, 0)) : kind \in SaveKinds, k \in DOMAIN AllRecords }

\* calculate_total_score of each scorer on each of them, evaluated once
ScoreResults ==
    [p \in DOMAIN StoreProfiles |->
        [job \in StoreJobs |-> CalculateTotalScore(StoreScorers[p], job)]]

\* the rows left after a delete of the rows in gone, with the cascade
JobsWithout(jobs, gone) == jobs \ gone
ScoresWithout(scores, gone) ==
    [id \in (DOMAIN scores) \ {row.id : row \in gone} |-> scores[id]]

\* JobScore.objects.create(job=job): a row of field defaults
PlaceholderScore ==
    [total_score |-> QInt(0), meets_minimum_requirements |-> FALSE,
     recommended_for_application |-> FALSE]

\* the JobScore fields score_job writes from calculate_total_score's result
ScoreRow(res) ==
    [total_score |-> res.total_score,
     meets_minimum_requirements |-> res.meets_minimum_requirements,
     recommended_for_application |-> res.recommended_for_application]

\* ------------------------------------------------------------------ save runs
\* the age in days beyond which simple_job_refresh deletes a Job, beyond which
\* daily_job_refresh deletes one, beyond which cleanup_old_jobs_task
\* deactivates one (its default), and under which daily_job_refresh takes
\* the newest Job as fresh (24 hours)
SimpleRefreshDays == 30
DailyRefreshDays == 7
CleanupDays == 30
FreshDays == 1

\* Job.objects.filter(scraped_at__lt=now - timedelta(days=days))
OlderThan(jobs, days) == {row \in jobs : row.age > days}

\* what a save run deletes before it scrapes: nothing, the rows whose URL
\* contains 'example.com', those and the rows older than 30 days, or every row
ClearModes(kind) ==
    CASE kind = "maximize_jobs_task" -> {"none", "invalid"}
      [] kind = "api_refresh_jobs" -> {"invalid"}
      [] kind = "simple_job_refresh" -> {"invalid_and_old"}
      [] kind = "expand_job_sources" -> {"none", "all"}
      [] OTHER -> {"none"}

Cleared(jobs, clear) ==
    CASE clear = "invalid" -> {row \in jobs : IsExampleUrl(row.source_url)}
      [] clear = "invalid_and_old" -> {row \in jobs : IsExampleUrl(row.source_url)}
                                          \cup OlderThan(jobs, SimpleRefreshDays)
      [] clear = "all" -> jobs
      [] OTHER -> {}

\* the total score a created job must reach to be kept
MinScore(kind, clear, prefs) ==
    CASE kind = "maximize_jobs_task" -> IF clear = "invalid" THEN Q(1, 10) ELSE QInt(1)
      [] kind = "api_refresh_jobs" -> QInt(1)
      [] kind = "simple_job_refresh" -> QInt(15)
      [] kind = "expand_job_sources" -> QInt(15)
      [] kind = "scrape_multiple_sources" -> QInt(prefs.min_job_score_threshold)
      [] OTHER -> QInt(0)

\* a save run starts: it reads the active preferences, clears rows and
\* holds n scraped records
SaveStart(r, kind, n, clear) ==
    /\ st_runs[r].pc = "idle"
    /\ clear \in ClearModes(kind)
    /\ LET gone == Cleared(st_jobs, clear)
       IN  /\ st_jobs' = JobsWithout(st_jobs, gone)
           /\ st_scores' = ScoresWithout(st_scores, gone)
    /\ st_runs' = [st_runs EXCEPT ![r] =
            [IdleRun EXCEPT !.kind = kind, !.pc = "loop", !.prefs = st_prefs,
                            !.min_score = MinScore(kind, clear, StoreProfiles[st_prefs]),
                            !.todo = n]]
    /\ UNCHANGED <<st_prefs, st_next_id, coordVars, dedupVars, scoreVars, prefsVars>>

\* the records the scraper of a save run can return: EnhancedJobScraper, which
\* scrape_jobs_task uses, gives every record an 'https://example.com/job-N' URL
ScrapedRecords(kind) ==
    IF kind = "scrape_jobs_task"
    THEN {k \in DOMAIN StoreRecords : IsExampleUrl(StoreRecords[k].source_url)}
    ELSE DOMAIN StoreRecords

\* the head of the loop body for the next record k of the batch: the guard
\* on source_url and the exists() check
SaveNext(r, k) ==
    LET run == st_runs[r]
        url == StoreRecords[k].source_url
    IN  /\ run.pc = "loop" /\ run.todo > 0
        /\ k \in ScrapedRecords(run.kind)
        /\ st_runs' = [st_runs EXCEPT ![r] =
                IF UrlRejected(run.kind, url) \/ UrlExists(st_jobs, url)
                THEN [run EXCEPT !.todo = @ - 1]
                ELSE [run EXCEPT !.todo = @ - 1, !.cur = k, !.pc = "create"]]
        /\ UNCHANGED <<st_jobs, st_scores, st_prefs, st_next_id,
                       coordVars, dedupVars, scoreVars, prefsVars>>

\* the run after an exception at step ("create" or "score") of the loop body:
\* the per-record handler continues with the next record; without one the
\* outer handler of the command ends the run
AfterException(run, step) ==
    IF HasPerRecordTry(run.kind)
    THEN [run EXCEPT !.pc = "loop", !.cur = 0, !.job_id = 0]
    ELSE [run EXCEPT !.pc = step \o "_failed", !.cur = 0, !.job_id = 0]

\* the rows a failed body takes back: transaction.atomic() rolls the
\* created row back
RolledBack(run, jobs) ==
    IF IsAtomic(run.kind) THEN {row \in jobs : row.id = run.job_id} ELSE {}

\* Job.objects.create
SaveCreate(r) ==
    LET run == st_runs[r]
        rec == StoreRecords[run.cur]
    IN  /\ run.pc = "create"
        /\ IF UniqueViolation(st_jobs, rec.source_url)
           THEN /\ st_runs' = [st_runs EXCEPT ![r] = AfterException(run, "create")]
                /\ UNCHANGED <<st_jobs, st_next_id>>
           ELSE /\ st_next_id' = st_next_id + 1
                /\ st_jobs' = st_jobs \cup
                        {JobFromRecord(run.kind, run.cur, st_next_id + 1)}
                /\ st_runs' = [st_runs EXCEPT ![r] =
                        [run EXCEPT !.job_id = st_next_id + 1, !.cur = 0,
                                    !.pc = IF run.kind = "scrape_jobs_task"
                                           THEN "placeholder" ELSE "score"]]
        /\ UNCHANGED <<st_scores, st_prefs, coordVars, dedupVars, scoreVars, prefsVars>>

\* scorer.score_job(job) and the threshold test on job_score.total_score:
\* the job is kept or deleted. score_job raises when calculate_total_score
\* raises and when the job was deleted meanwhile (get_or_create of its JobScore)
SaveScore(r) ==
    LET run == st_runs[r]
        rows == {row \in st_jobs : row.id = run.job_id}
    IN  /\ run.pc = "score"
        /\ IF rows = {}
           THEN /\ st_runs' = [st_runs EXCEPT ![r] = AfterException(run, "score")]
                /\ UNCHANGED <<st_jobs, st_scores>>
           ELSE LET row == CHOOSE x \in rows : TRUE
                    res == ScoreResults[run.prefs][StoredJob(row)]
                IN  IF res.raised
                    THEN LET gone == RolledBack(run, st_jobs)
                         IN  /\ st_runs' = [st_runs EXCEPT ![r] =
                                    AfterException(run, "score")]
                             /\ st_jobs' = JobsWithout(st_jobs, gone)
                             /\ st_scores' = ScoresWithout(st_scores, gone)
                    ELSE IF QLe(run.min_score, res.total_score)
                    THEN /\ st_scores' = DictSet(st_scores, run.job_id, ScoreRow(res))
                         /\ st_runs' = [st_runs EXCEPT ![r] =
                                [run EXCEPT !.pc = "loop", !.job_id = 0,
                                            !.saved_count = @ + 1]]
                         /\ UNCHANGED st_jobs
                    ELSE /\ st_jobs' = JobsWithout(st_jobs, rows)
                         /\ st_scores' = ScoresWithout(st_scores, rows)
                         /\ st_runs' = [st_runs EXCEPT ![r] =
                                [run EXCEPT !.pc = "loop", !.job_id = 0]]
        /\ UNCHANGED <<st_prefs, st_next_id, coordVars, dedupVars, scoreVars, prefsVars>>

\* JobScore.objects.create(job=job) of scrape_jobs_task; it raises when the
\* job is gone or already has a JobScore
SavePlaceholder(r) ==
    LET run == st_runs[r]
        stored == \E row \in st_jobs : row.id = run.job_id
    IN  /\ run.pc = "placeholder"
        /\ IF ~stored \/ run.job_id \in DOMAIN st_scores
           THEN /\ st_runs' = [st_runs EXCEPT ![r] = AfterException(run, "score")]
                /\ UNCHANGED st_scores
           ELSE /\ st_scores' = DictSet(st_scores, run.job_id, PlaceholderScore)
                /\ st_runs' = [st_runs EXCEPT ![r] =
                        [run EXCEPT !.pc = "loop", !.job_id = 0]]
        /\ UNCHANGED <<st_jobs, st_prefs, st_next_id, coordVars, dedupVars, scoreVars, prefsVars>>

\* the loop of a save run has consumed its batch
SaveFinish(r) ==
    /\ st_runs[r].pc = "loop" /\ st_runs[r].todo = 0
    /\ st_runs' = [st_runs EXCEPT ![r].pc = "done"]
    /\ UNCHANGED <<st_jobs, st_scores, st_prefs, st_next_id,
                   coordVars, dedupVars, scoreVars, prefsVars>>

\* ------------------------------------------------------------------ rescoring loops
\* the ids of the queryset a rescoring loop iterates over
RescoreIds(kind, jobs, scores) ==
    IF kind = "score_all_jobs"
    THEN {row.id : row \in {x \in jobs : x.is_active /\ x.id \notin DOMAIN scores}}
    ELSE {row.id : row \in {x \in jobs : x.is_active}}

\* UserPreferences.save() of an existing row: user_preference_trigger_task is
\* queued when auto_scrape_enabled is set and the queue accepts it (queued)
TriggeredRefresh(kind, queued) ==
    IF kind = "update_user_preferences" /\ queued THEN "pending" ELSE "none"

\* a rescoring loop starts; update_user_preferences first saves the profile p
RescoreStart(r, kind, p, queued) ==
    /\ st_runs[r].pc = "idle"
    /\ st_prefs' = IF kind = "update_user_preferences" THEN p ELSE st_prefs
    /\ st_runs' = [st_runs EXCEPT ![r] =
            [IdleRun EXCEPT !.kind = kind, !.pc = "rescore", !.prefs = st_prefs',
                            !.ids = RescoreIds(kind, st_jobs, st_scores),
                            !.refresh = TriggeredRefresh(kind, queued)]]
    /\ UNCHANGED <<st_jobs, st_scores, st_next_id, coordVars, dedupVars, scoreVars, prefsVars>>

\* A pass whose update of an existing JobScore adds to its total_score.
RescoreJobAccumulating(r, id) ==
    LET run == st_runs[r]
        rows == {row \in st_jobs : row.id = id}
    IN  /\ run.pc = "rescore" /\ id \in run.ids
        /\ IF rows = {}
           THEN UNCHANGED st_scores
           ELSE LET row == CHOOSE x \in rows : TRUE
                    res == ScoreResults[run.prefs][StoredJob(row)]
                IN  IF res.raised
                    THEN UNCHANGED st_scores
                    ELSE IF id \in DOMAIN st_scores
                    THEN st_scores' = DictSet(st_scores, id,
                            [ScoreRow(res) EXCEPT !.total_score =
                                QAdd(st_scores[id].total_score, res.total_score)])
                    ELSE st_scores' = DictSet(st_scores, id, ScoreRow(res))
        /\ st_runs' = [st_runs EXCEPT ![r] = [run EXCEPT !.ids = @ \ {id}]]
        /\ UNCHANGED <<st_jobs, st_prefs, st_next_id, coordVars, dedupVars, scoreVars, prefsVars>>

\* one pass of the loop body for job id: score_job(job) inside try / except
RescoreJob(r, id) ==
    LET run == st_runs[r]
        rows == {row \in st_jobs : row.id = id}
    IN  /\ run.pc = "rescore" /\ id \in run.ids
        /\ IF rows = {}
           THEN /\ st_runs' = [st_runs EXCEPT ![r] =
                        [run EXCEPT !.ids = @ \ {id}]]
                /\ UNCHANGED st_scores
           ELSE LET row == CHOOSE x \in rows : TRUE
                    res == ScoreResults[run.prefs][StoredJob(row)]
                IN  IF res.raised
                    THEN /\ st_runs' = [st_runs EXCEPT ![r] =
                                [run EXCEPT !.ids = @ \ {id}]]
                         /\ UNCHANGED st_scores
                    ELSE /\ st_scores' = DictSet(st_scores, id, ScoreRow(res))
                         /\ st_runs' = [st_runs EXCEPT ![r] =
                                [run EXCEPT !.ids = @ \ {id}]]
        /\ UNCHANGED <<st_jobs, st_prefs, st_next_id, coordVars, dedupVars, scoreVars, prefsVars>>

\* the loop takes the next job of its queryset
RescoreStep(r) == \E id \in st_runs[r].ids : RescoreJob(r, id)

\* the loop has visited every job of its queryset
RescoreFinish(r) ==
    /\ st_runs[r].pc = "rescore" /\ st_runs[r].ids = {}
    /\ st_runs' = [st_runs EXCEPT ![r].pc = "done"]
    /\ UNCHANGED <<st_jobs, st_scores, st_prefs, st_next_id,
                   coordVars, dedupVars, scoreVars, prefsVars>>

\* user_preference_trigger_task, queued by the profile update of run r, runs
\* smart_job_refresh_task after its sleep: the profile was updated less than
\* two hours ago, so every Job row is deleted and maximize_jobs_task saves n
\* freshly scraped records, scored with the profile it reads
SmartJobRefresh(r, n) ==
    /\ st_runs[r].pc = "done" /\ st_runs[r].refresh = "pending"
    /\ st_jobs' = {}
    /\ st_scores' = EmptyDict
    /\ st_runs' = [st_runs EXCEPT ![r] =
            [IdleRun EXCEPT !.kind = "maximize_jobs_task", !.pc = "loop",
                            !.prefs = st_prefs,
                            !.min_score = MinScore("maximize_jobs_task", "invalid",
                                                   StoreProfiles[st_prefs]),
                            !.todo = n, !.refresh = "ran"]]
    /\ UNCHANGED <<st_prefs, st_next_id, coordVars, dedupVars, scoreVars, prefsVars>>

InitStore ==
    /\ CoordIdle /\ DedupIdle /\ ScoreIdle /\ PrefsIdle
    /\ st_jobs = {} /\ st_scores = EmptyDict /\ st_next_id = 0
    /\ st_prefs \in DOMAIN StoreProfiles
    /\ st_runs = [r \in Runs |-> IdleRun]

NextStore ==
    \/ \E r \in Runs, kind \in SaveKinds, n \in 0..MaxBatch,
          clear \in {"none", "invalid", "invalid_and_old", "all"} : SaveStart(r, kind, n, clear)
    \/ \E r \in Runs, k \in DOMAIN StoreRecords : SaveNext(r, k)
    \/ \E r \in Runs : SaveCreate(r)
    \/ \E r \in Runs : SaveScore(r)
    \/ \E r \in Runs : SavePlaceholder(r)
    \/ \E r \in Runs : SaveFinish(r)
    \/ \E r \in Runs, kind \in RescoreKinds, p \in DOMAIN StoreProfiles,
          queued \in BOOLEAN : RescoreStart(r, kind, p, queued)
    \/ \E r \in Runs : RescoreStep(r)
    \/ \E r \in Runs : RescoreFinish(r)
    \/ \E r \in Runs, n \in 0..MaxBatch : SmartJobRefresh(r, n)

SpecStore == InitStore /\ [][NextStore]_vars

\* ------------------------------------------------------------------ simple_job_refresh
\* Command.handle of simple_job_refresh. When the import of the JSearch
\* scraper succeeds the command is the save run SaveStart .. SaveFinish of kind
\* "simple_job_refresh"; when it raises ImportError the except clause calls
\* create_sample_jobs and sets saved_count. A run at pc "done" has written
\* {'success': True, 'added_new_jobs': saved_count}; at "create_failed" or
\* "score_failed" the outer handler has written {'success': False}.

\* the value the ImportError branch assigns to saved_count
FallbackSavedCount == 5

\* the index in AllRecords of sample job i
SampleRecord(i) == Len(StoreRecords) + i

\* the cleanup, then the import of JSearchAPIScraper raises ImportError
FallbackStart(r) ==
    /\ st_runs[r].pc = "idle"
    /\ LET gone == Cleared(st_jobs, "invalid_and_old")
       IN  /\ st_jobs' = JobsWithout(st_jobs, gone)
           /\ st_scores' = ScoresWithout(st_scores, gone)
    /\ st_runs' = [st_runs EXCEPT ![r] =
            [IdleRun EXCEPT !.kind = "simple_job_refresh", !.pc = "sample",
                            !.prefs = st_prefs, !.cur = 1]]
    /\ UNCHANGED <<st_prefs, st_next_id, coordVars, dedupVars, scoreVars, prefsVars>>

\* one pass of the loop of create_sample_jobs: Job.objects.create and
\* scorer.score_job(job); an exception of either leaves create_sample_jobs
\* and the except ImportError clause and reaches the outer handler
FallbackCreate(r) ==
    LET run == st_runs[r]
        k == SampleRecord(run.cur)
        row == JobFromRecord(run.kind, k, st_next_id + 1)
        res == ScoreResults[run.prefs][StoredJob(row)]
    IN  /\ run.pc = "sample" /\ run.cur <= Len(SampleRecords)
        /\ IF UniqueViolation(st_jobs, AllRecords[k].source_url)
           THEN /\ st_runs' = [st_runs EXCEPT ![r] =
                        [run EXCEPT !.pc = "create_failed", !.cur = 0]]
                /\ UNCHANGED <<st_jobs, st_scores, st_next_id>>
           ELSE /\ st_next_id' = st_next_id + 1
                /\ st_jobs' = st_jobs \cup {row}
                /\ IF res.raised
                   THEN /\ st_runs' = [st_runs EXCEPT ![r] =
                                [run EXCEPT !.pc = "score_failed", !.cur = 0]]
                        /\ UNCHANGED st_scores
                   ELSE /\ st_scores' = DictSet(st_scores, row.id, ScoreRow(res))
                        /\ st_runs' = [st_runs EXCEPT ![r] = [run EXCEPT !.cur = @ + 1]]
        /\ UNCHANGED <<st_prefs, coordVars, dedupVars, scoreVars, prefsVars>>

\* create_sample_jobs has returned: saved_count = 5, and the result is written
FallbackFinish(r) ==
    /\ st_runs[r].pc = "sample" /\ st_runs[r].cur > Len(SampleRecords)
    /\ st_runs' = [st_runs EXCEPT ![r] =
            [@ EXCEPT !.pc = "done", !.cur = 0, !.saved_count = FallbackSavedCount]]
    /\ UNCHANGED <<st_jobs, st_scores, st_prefs, st_next_id,
                   coordVars, dedupVars, scoreVars, prefsVars>>

NextRefresh ==
    \/ \E r \in Runs, n \in 0..MaxBatch :
          SaveStart(r, "simple_job_refresh", n, "invalid_and_old")
    \/ \E r \in Runs, k \in DOMAIN StoreRecords : SaveNext(r, k)
    \/ \E r \in Runs : SaveCreate(r)
    \/ \E r \in Runs : SaveScore(r)
    \/ \E r \in Runs : SaveFinish(r)
    \/ \E r \in Runs : FallbackStart(r)
    \/ \E r \in Runs : FallbackCreate(r)
    \/ \E r \in Runs : FallbackFinish(r)

SpecRefresh == InitStore /\ [][NextRefresh]_vars

\* ------------------------------------------------------------------ retention
\* the days that pass in one step, and the age after which a Job is not
\* aged further
DaySteps == {8, 23}
MaxAge == 31

AgeAfter(age, days) == IF age + days > MaxAge THEN MaxAge ELSE age + days

\* days go by: every stored Job is that much older
TimePasses(days) ==
    /\ st_jobs # {}
    /\ \E row \in st_jobs : row.age < MaxAge
    /\ st_jobs' = {[row EXCEPT !.age = AgeAfter(@, days)] : row \in st_jobs}
    /\ UNCHANGED <<st_scores, st_prefs, st_next_id, st_runs,
                   coordVars, dedupVars, scoreVars, prefsVars>>

\* old_jobs.update(is_active=False) on the active rows older than days
Deactivated(jobs, days) ==
    {[row EXCEPT !.is_active = @ /\ row.age <= days] : row \in jobs}

\* cleanup_old_jobs_task(days=30)
CleanupOldJobs ==
    /\ st_jobs' = Deactivated(st_jobs, CleanupDays)
    /\ UNCHANGED <<st_scores, st_prefs, st_next_id, st_runs,
                   coordVars, dedupVars, scoreVars, prefsVars>>

\* daily_job_refresh's test: without --force, an active Job scraped in the
\* last 24 hours makes the command return at once
NeedsRefresh(jobs, force) ==
    force \/ ~\E row \in jobs : row.is_active /\ row.age < FreshDays

\* daily_job_refresh: when a refresh is needed it deletes the Jobs older than
\* 7 days and calls simple_job_refresh, which deletes again and saves n
\* scraped records
DailyJobRefresh(r, force, n) ==
    /\ st_runs[r].pc = "idle"
    /\ IF NeedsRefresh(st_jobs, force)
       THEN LET old == OlderThan(st_jobs, DailyRefreshDays)
                gone == old \cup Cleared(JobsWithout(st_jobs, old), "invalid_and_old")
            IN  /\ st_jobs' = JobsWithout(st_jobs, gone)
                /\ st_scores' = ScoresWithout(st_scores, gone)
                /\ st_runs' = [st_runs EXCEPT ![r] =
                        [IdleRun EXCEPT !.kind = "simple_job_refresh", !.pc = "loop",
                                        !.prefs = st_prefs,
                                        !.min_score = MinScore("simple_job_refresh", "invalid_and_old",
                                                               StoreProfiles[st_prefs]),
                                        !.todo = n]]
       ELSE /\ st_runs' = [st_runs EXCEPT ![r] =
                    [IdleRun EXCEPT !.kind = "daily_job_refresh", !.pc = "done"]]
            /\ UNCHANGED <<st_jobs, st_scores>>
    /\ UNCHANGED <<st_prefs, st_next_id, coordVars, dedupVars, scoreVars, prefsVars>>

\* the scheduled refresh and cleanup jobs, with the time that passes
\* between them
NextRetention ==
    \/ \E r \in Runs, n \in 0..MaxBatch : SaveStart(r, "simple_job_refresh", n, "invalid_and_old")
    \/ \E r \in Runs, k \in DOMAIN StoreRecords : SaveNext(r, k)
    \/ \E r \in Runs : SaveCreate(r)
    \/ \E r \in Runs : SaveScore(r)
    \/ \E r \in Runs : SaveFinish(r)
    \/ \E days \in DaySteps : TimePasses(days)
    \/ CleanupOldJobs
    \/ \E r \in Runs, force \in BOOLEAN, n \in 0..MaxBatch : DailyJobRefresh(r, force, n)

SpecRetention == InitStore /\ [][NextRetention]_vars

\* ------------------------------------------------------------------ claims: coordinator
UrlsOf(list) == [i \in DOMAIN list |-> list[i].source_url]

PairwiseDistinct(seq) == \A i, j \in DOMAIN seq : i # j => seq[i] # seq[j]

\* C1 (as claimed): the list a coordinator entry point returns holds no two
\* postings with the same source_url.
C1_ReturnedUrlsDistinct == c_pc = "done" => PairwiseDistinct(UrlsOf(c_result))

\* C3: deduplicating the output of _deduplicate_jobs again changes nothing:
\* dedup(dedup(L)) = dedup(L) for every input list L.
C3_DedupIdempotent == d_pc = "twice" => d_out2 = d_out1

\* a run in which the first pass collapsed records and still kept several
C3_Witness == d_pc = "twice" /\ Len(d_out1) < Len(d_in) /\ Len(d_out1) >= 2

\* every posting the succeeding adapters handed over has its key in `list`
KeysCovered(list) ==
    \A i \in DOMAIN c_got : \E k \in DOMAIN list : DedupKey(list[k]) = DedupKey(c_got[i])

PlaceholderUrl(url) ==
    url = s_empty \/ url = s_example_job \/ Contains(url, s_example_com)

\* the position in list of the record _deduplicate_jobs keeps for the key of
\* list[j]: the first one with that key
KeptFor(list, j) ==
    CHOOSE i \in 1..j : /\ DedupKey(list[i]) = DedupKey(list[j])
                        /\ \A h \in 1..(i - 1) : DedupKey(list[h]) # DedupKey(list[j])

\* C18: in the list an entry point hands to _deduplicate_jobs, no record with
\* a valid URL loses its place to an earlier record of the same key whose URL
\* is empty or a placeholder
C18_ValidNotDroppedForPlaceholder ==
    c_pc = "done" =>
        \A j \in DOMAIN c_all :
            ~PlaceholderUrl(c_all[j].source_url) =>
                ~PlaceholderUrl(c_all[KeptFor(c_all, j)].source_url)

\* C19: the list scrape_multiple_sources obtains from the Coordinator has at
\* most --max-jobs entries
C19_AtMostMaxJobs ==
    (c_pc = "done" /\ c_max_jobs > 0) => Len(c_result) <= c_max_jobs

\* the step of expand_job_sources a source belongs to
TierOf(source) ==
    ExpandSites[CHOOSE k \in DOMAIN ExpandSites : ExpandSites[k].source = source].tier

\* C20: every adapter call of expand_job_sources is made while fewer than
\* max_jobs raw postings are collected, and the calls follow the order of the
\* steps: API, remote, python, startup, general
C20_TiersInOrderUntilMaxJobs ==
    [][Len(c_invoked') > Len(c_invoked) =>
          /\ Len(c_all) < c_max_jobs
          /\ \A a, b \in DOMAIN c_invoked' :
                a < b => TierOf(c_invoked'[a]) <= TierOf(c_invoked'[b])]_vars

\* the Job that _save_jobs_to_database creates from a raw record: absent keys
\* take the defaults of job_data.get, the Company is created as 'tech'
JobOfRaw(raw) ==
    ScoredJob(<<>>, <<"entry", FALSE, raw.title, s_empty>>, <<raw.location, s_onsite>>,
              <<raw.salary_min, 0, s_tech>>)

\* total_score of a raw record under the first stored profile
RawTotalScore(raw) == CalculateTotalScore(Scorer(StoreProfiles[1]), JobOfRaw(raw)).total_score

\* C21: the list a Coordinator entry point returns is in descending order of
\* the total_score its postings get
C21_ResultSortedByScore ==
    c_pc = "done" =>
        \A i, j \in DOMAIN c_result :
            i < j => QLe(RawTotalScore(c_result[j]), RawTotalScore(c_result[i]))

\* ------------------------------------------------------------------ claims: scoring
\* a call of calculate_total_score has returned a result
ScoreReturned == s_pc = "done" /\ ~s_res.raised

InRange100(q) == QLe(QInt(0), q) /\ QLe(q, QInt(100))

\* a profile with a category weight below zero
HasNegativeWeight(prefs) ==
    \/ prefs.skills_weight < 0
    \/ prefs.experience_weight < 0
    \/ prefs.location_weight < 0
    \/ prefs.salary_weight < 0
    \/ prefs.company_weight < 0

\* C4: for every posting and every profile with nonnegative category
\* weights, the total_score that calculate_total_score returns lies in
\* [0, 100], also when the five weights do not sum to 100.
C4_TotalScoreInRange ==
    (ScoreReturned /\ s_impl = "backend" /\ ~HasNegativeWeight(s_prefs)) =>
        InRange100(s_res.total_score)

\* C5: each of the five component scores that calculate_total_score returns
\* (skills, experience, location, salary, company) lies in [0, 100], for the
\* scorer built from a profile and for the scorer of jobs/scoring.py.
C5_ComponentScoresInRange ==
    ScoreReturned =>
        /\ InRange100(s_res.skills_score)
        /\ s_res.experience_score \in 0..100
        /\ s_res.location_score \in 0..100
        /\ s_res.salary_score \in 0..100
        /\ s_res.company_score \in 0..100

\* a returned result whose experience score was below 0 before the clamp and
\* whose skills score was cut at 100
C5_Witness ==
    /\ ScoreReturned
    /\ ExperienceBaseScore(ScorerOf(s_impl, s_prefs), s_job) < 0
    /\ s_res.experience_score = 0
    /\ QEq(s_res.skills_score, QInt(100))

\* the sum of the five category weights of a profile
WeightSum(prefs) ==
    prefs.skills_weight + prefs.experience_weight + prefs.location_weight
        + prefs.salary_weight + prefs.company_weight

\* the sum of component score x (category weight / sum of the weights)
NormalizedTotal(prefs, res) ==
    LET sum == WeightSum(prefs)
    IN  WeightedTotal([skills |-> Q(prefs.skills_weight, sum),
                       experience |-> Q(prefs.experience_weight, sum),
                       location |-> Q(prefs.location_weight, sum),
                       salary |-> Q(prefs.salary_weight, sum),
                       company |-> Q(prefs.company_weight, sum)],
                      res.skills_score, res.experience_score, res.location_score,
                      res.salary_score, res.company_score)

\* C7: the total_score of a profile's scorer equals the sum over the five
\* categories of component score x (category weight / sum of the five
\* category weights), so scaling all five weights leaves it unchanged.
C7_TotalIsNormalizedSum ==
    (ScoreReturned /\ s_impl = "backend" /\ WeightSum(s_prefs) > 0) =>
        QEq(s_res.total_score, NormalizedTotal(s_prefs, s_res))

\* C9: for every posting and every profile, also a profile with neither
\* 'remote' nor 'hybrid' among its locations and location types,
\* calculate_total_score returns a result and does not raise.
C9_ScoringNeverRaises == s_pc = "done" => ~s_res.raised

\* C12: for every posting with experience_level 'senior' scored against a
\* profile whose experience_levels are ['entry', 'junior'], experience_score
\* is 0 and meets_minimum_requirements is false, whatever the other fields,
\* the weights and the minimum threshold.
C12_SeniorNeverMeetsMinimum ==
    ( /\ ScoreReturned /\ s_impl = "backend"
      /\ s_job.experience_level = "senior"
      /\ s_prefs.experience_levels = <<"entry", "junior">> )
    => /\ s_res.experience_score = 0
       /\ ~s_res.meets_minimum_requirements

\* the sum of w[sk] over the positions of skills whose skill is in w
RECURSIVE SumWeights(_, _, _)
SumWeights(skills, i, w) ==
    IF i > Len(skills) THEN QInt(0)
    ELSE QAdd(IF skills[i] \in DOMAIN w THEN w[skills[i]] ELSE QInt(0),
              SumWeights(skills, i + 1, w))

\* matched_weight and total_weight as the claim defines them, from the
\* skill weights w of the scorer
ClaimedMatchedWeight(skills, w) == SumWeights(skills, 1, w)
ClaimedTotalWeight(skills, w) ==
    QAdd(ClaimedMatchedWeight(skills, w),
         QInt(5 * Cardinality({i \in DOMAIN skills : skills[i] \notin DOMAIN w})))
ClaimedSkillsScore(skills, w) ==
    QMin(QInt(100),
         QAdd(QMul(QInt(100), QDiv(ClaimedMatchedWeight(skills, w),
                                   ClaimedTotalWeight(skills, w))),
              QInt(5 * Cardinality({i \in DOMAIN skills :
                        skills[i] \in DOMAIN w /\ QLe(QInt(15), w[skills[i]])}))))

C13_Example ==
    /\ s_impl = "backend"
    /\ s_prefs.skills = <<"Python", "Django", "React">>
    /\ s_job.required_skills = <<"Python", "Django", "PostgreSQL">>

C2_StoredUrlsUnique ==
    \A a \in st_jobs, b \in st_jobs : a.source_url = b.source_url => a = b

\* a save run passed the exists() check, another run stored the same URL, and
\* the create was refused: the run without a per-record handler ended there
C2_Witness ==
    \E r \in Runs, o \in Runs :
        /\ r # o
        /\ st_runs[r].pc = "create_failed"
        /\ st_runs[o].kind \in SaveKinds
        /\ st_jobs # {}

\* C6: in every reachable state of the store, after any sequence of
\* score_job calls, placeholder creations and profile updates, every stored
\* JobScore that is recommended_for_application also meets_minimum_requirements.
C6_RecommendedImpliesMinimum ==
    \A id \in DOMAIN st_scores :
        st_scores[id].recommended_for_application
            => st_scores[id].meets_minimum_requirements

\* a recommended JobScore is stored after scrape_jobs_task created a
\* placeholder and a profile update rescored the jobs
C6_Witness ==
    /\ \E id \in DOMAIN st_scores : st_scores[id].recommended_for_application
    /\ \E r \in Runs : /\ st_runs[r].kind = "scrape_jobs_task"
                       /\ st_runs[r].pc = "done"
    /\ \E r \in Runs : /\ st_runs[r].kind = "update_user_preferences"
                       /\ st_runs[r].pc = "done"

\* C10: in every batch loop that scores postings, when scoring one
\* posting raises, the remaining postings of the batch are still processed:
\* no run ends on a scoring exception with records or jobs left to visit.
C10_BatchSurvivesScoringError ==
    \A r \in Runs :
        st_runs[r].pc = "score_failed"
            => st_runs[r].todo = 0 /\ st_runs[r].ids = {}

\* C11: in every save path, when creating a Job fails because a Job with
\* the same source_url already exists, also one inserted between the
\* exists() check and the create, the record is discarded and the run goes on
\* with the rest of its batch and reports success: no run is ended by the
\* refused create.
C11_ConflictDiscardsRecordOnly ==
    \A r \in Runs : st_runs[r].pc # "create_failed"

\* no run is in the middle of its work
Quiescent ==
    \A r \in Runs : st_runs[r].pc \in {"idle", "done", "create_failed", "score_failed"}

\* run r updated the profile and everything the update started is over: its
\* immediate rescoring and, when it was queued, the background refresh
UpdateFinished(r) ==
    /\ st_runs[r].pc = "done"
    /\ \/ st_runs[r].kind = "update_user_preferences" /\ st_runs[r].refresh = "none"
       \/ st_runs[r].refresh = "ran"

\* the stored score of row is the one the active profile gives its job
\* (when scoring with the active profile returns one)
FreshScore(row) ==
    LET res == ScoreResults[st_prefs][StoredJob(row)]
    IN  (row.id \in DOMAIN st_scores /\ ~res.raised) =>
            st_scores[row.id] = ScoreRow(res)

\* C14: once a profile update and the operations it started have finished
\* (and no other run is under way), every stored posting that has a score has
\* the score the updated profile gives it
C14_NoStaleScoreAfterUpdate ==
    (Quiescent /\ \E r \in Runs : UpdateFinished(r)) =>
        \A row \in st_jobs : FreshScore(row)

\* C15: once a save run has finished and no run is under way, every stored
\* Job has its JobScore row (the one-to-one relation allows no second one)
C15_EveryJobHasScore ==
    (Quiescent /\ \E r \in Runs : st_runs[r].kind \in SaveKinds /\ st_runs[r].pc = "done") =>
        \A row \in st_jobs : row.id \in DOMAIN st_scores

\* no run is working on the Job row (the one it has just created)
Settled(row) == \A r \in Runs : st_runs[r].job_id # row.id

\* C16: no step of a cleanup or refresh operation removes an aged Job row
\* that has a valid URL
C16_AgedRowsStay ==
    [][\A row \in st_jobs :
          (row.age > 0 /\ ~IsExampleUrl(row.source_url) /\ Settled(row)) =>
              \E x \in st_jobs' : x.id = row.id]_vars

\* C17: no Job that a save loop has stored and finished with has an empty
\* source_url or one on example.com
C17_NoInvalidUrlStored ==
    \A row \in st_jobs :
        Settled(row) => row.source_url # s_empty /\ ~IsExampleUrl(row.source_url)

\* ------------------------------------------------------ claims: profile weights

\* category weights the specification calls a configuration error: one below
\* zero, or all five zero
InvalidWeights(prefs) ==
    \/ HasNegativeWeight(prefs)
    \/ /\ prefs.skills_weight = 0
       /\ prefs.experience_weight = 0
       /\ prefs.location_weight = 0
       /\ prefs.salary_weight = 0
       /\ prefs.company_weight = 0

\* C22: a profile whose category weights include a negative value or are all
\* zero is rejected: no JobScorer built from it returns a score.
C22_InvalidWeightsRejected ==
    (s_pc = "done" /\ s_impl = "backend" /\ InvalidWeights(s_prefs)) => ~ScoreReturned

\* ------------------------------------------------------ claims: MultiSourceScraper

\* the postings scrape_jobs appended after those of the real adapters
SyntheticAdded == SubSeq(c_result, Len(c_all) + 1, Len(c_result))

\* C23: MultiSourceScraper.scrape_jobs adds synthetic postings exactly when
\* fewer than 5 postings were collected from the real adapters, adds at most
\* 10, and every synthetic posting carries the source tag 'enhanced_scraper',
\* which no posting of a real adapter carries.
C23_SyntheticOnlyBelowFive ==
    (c_pc = "done" /\ c_mode = "multi_source_scraper") =>
        /\ SubSeq(c_result, 1, Len(c_all)) = c_all
        /\ (Len(SyntheticAdded) > 0) <=> (Len(c_all) < 5)
        /\ Len(SyntheticAdded) <= 10
        /\ \A k \in DOMAIN SyntheticAdded : SyntheticAdded[k].source = "enhanced_scraper"
        /\ \A k \in DOMAIN c_all : c_all[k].source # "enhanced_scraper"

\* a call in which an adapter raised, the others collected four postings, and
\* ten synthetic postings were appended
C23_Witness ==
    /\ c_pc = "done" /\ c_mode = "multi_source_scraper"
    /\ c_failed # {} /\ Len(c_all) = 4 /\ Len(SyntheticAdded) = 10

\* ------------------------------------------------------ claims: re-scoring

\* this step is score_job(row) of the rescoring loop of run r
RescoredBy(r, row) ==
    /\ st_runs[r].pc = "rescore" /\ row.id \in st_runs[r].ids
    /\ st_runs'[r].pc = "rescore" /\ row.id \notin st_runs'[r].ids

\* the JobScore of row is the one score_job writes with profile p
ScoredWith(p, row) ==
    /\ row.id \in DOMAIN st_scores
    /\ ~ScoreResults[p][StoredJob(row)].raised
    /\ st_scores[row.id] = ScoreRow(ScoreResults[p][StoredJob(row)])

RECURSIVE SubsequenceFrom(_, _, _, _)
SubsequenceFrom(a, i, b, j) ==
    IF i > Len(a) THEN TRUE
    ELSE IF j > Len(b) THEN FALSE
    ELSE IF a[i] = b[j] THEN SubsequenceFrom(a, i + 1, b, j + 1)
    ELSE SubsequenceFrom(a, i, b, j + 1)

\* the first record of list that has the key of job
FirstWithKey(list, job) ==
    list[CHOOSE i \in DOMAIN list :
            /\ DedupKey(list[i]) = DedupKey(job)
            /\ \A j \in 1..(i - 1) : DedupKey(list[j]) # DedupKey(job)]

\* C25: first-seen wins: the output of _deduplicate_jobs is a subsequence of
\* its input, and for every deduplication key of the input the output holds
\* exactly one record with that key, the first input record that has it,
\* also when later records with the key have other source_urls.
C25_FirstSeenWins ==
    d_pc \in {"once", "twice"} =>
        /\ SubsequenceFrom(d_out1, 1, d_in, 1)
        /\ \A i \in DOMAIN d_in :
              LET same == {k \in DOMAIN d_out1 : DedupKey(d_out1[k]) = DedupKey(d_in[i])}
              IN  /\ Cardinality(same) = 1
                  /\ \A k \in same : d_out1[k] = FirstWithKey(d_in, d_in[i])

\* an input whose second record has the key of the first and another
\* source_url, followed by a record with another key: two records come out
C25_Witness ==
    /\ d_pc = "once" /\ Len(d_in) = 3
    /\ DedupKey(d_in[2]) = DedupKey(d_in[1])
    /\ d_in[2].source_url # d_in[1].source_url
    /\ d_out1 = <<d_in[1], d_in[3]>>

\* ------------------------------------------------------ claims: JSearch dedup

\* C26: the list JSearchAPIScraper._deduplicate_jobs returns holds no two
\* records with the same non-empty external_id.
C26_ExternalIdsDistinct ==
    d_pc = "jsearch_done" =>
        \A i, j \in DOMAIN d_out1 :
            (i # j /\ d_out1[i].external_id # "") =>
                d_out1[i].external_id # d_out1[j].external_id

\* ------------------------------------------------------ claims: scoring after a scrape

\* this step starts the score_jobs_task (rescore_all = False) of run r after
\* the scrape_jobs_task of run o has ended; r was idle until now, so every
\* stored Job was created by o
ScoringTriggered(o, r) ==
    /\ st_runs[o].kind = "scrape_jobs_task" /\ st_runs[o].pc = "done"
    /\ st_runs[r].pc = "idle"
    /\ st_runs'[r].kind = "score_all_jobs"

\* C27: the score_jobs_task that follows a scrape_jobs_task run scores each
\* Job the run created: every such Job is in the queryset its score_all_jobs
\* loop passes to score_job.
C27_CreatedJobsGetScored ==
    [][\A o, r \in Runs :
          ScoringTriggered(o, r) => \A row \in st_jobs : row.id \in st_runs'[r].ids]_vars

\* ------------------------------------------------------ claims: active preferences

\* C28: starting from a store with no profile, when the concurrent
\* get_active_preferences calls have returned, exactly one active
\* UserPreferences row exists and every caller received that row.
C28_OneActiveProfile ==
    (\A c \in Callers : up_pc[c] = "done") =>
        /\ Cardinality(up_rows) = 1
        /\ \A c \in Callers : up_prefs[c] \in up_rows
        /\ \A c, d \in Callers : up_prefs[c] = up_prefs[d]

\* ------------------------------------------------------ claims: location types

\* the profile with 'onsite' added to its location_types
WithOnsite(prefs) == [prefs EXCEPT !.location_types = Append(@, s_onsite)]

\* C29: adding 'onsite' to a profile's location_types never lowers a
\* posting's location score: the score under the profile with 'onsite' added
\* is at least the score under the profile without it.
C29_OnsiteNeverLowersLocationScore ==
    (ScoreReturned /\ s_impl = "backend"
        /\ \A i \in DOMAIN s_prefs.location_types : s_prefs.location_types[i] # s_onsite) =>
        LET with == CalculateTotalScore(Scorer(WithOnsite(s_prefs)), s_job)
        IN  ~with.raised => with.location_score >= s_res.location_score

\* ------------------------------------------------------ claims: simple_job_refresh

\* run r is the only command that has run since the store was empty
RanAlone(r) == \A o \in Runs \ {r} : st_runs[o].pc = "idle"

\* C30: on every path through simple_job_refresh that reports success, the
\* ImportError fallback included, the reported added_new_jobs equals the number
\* of Job rows the run added that are present when it ends.
C30_AddedNewJobsIsRowsAdded ==
    \A r \in Runs :
        (st_runs[r].kind = "simple_job_refresh" /\ st_runs[r].pc = "done" /\ RanAlone(r)) =>
            st_runs[r].saved_count = Cardinality(st_jobs)

=============================================================================
